---- MODULE Spec2Model ----
(***************************************************************************)
(* A model of the mudcode-rs bridge: the state resolver (state.rs), the    *)
(* text processing (parser.rs), the attachment validator and the request   *)
(* handlers (main.rs) and the chat sink as the handlers see it             *)
(* (discord.rs).                                                           *)
(*                                                                         *)
(* Strings are sequences of one-character strings, so that trimming,       *)
(* ordering, searching and slicing are computed as the code computes them. *)
(* Option<T> is a record [some |-> BOOLEAN, v |-> T].                       *)
(***************************************************************************)
EXTENDS Integers, Sequences, FiniteSets, TLC

VARIABLES
    bridgeState,    \* resolver: the state document handed to find_channel_id
    lookup,         \* resolver: the arguments of the call, <<>> before it
    found,          \* resolver: the call's result, Pending before it
    fs,             \* the filesystem: absolute path -> node
    validation,     \* validator: the arguments of validate_file_paths
    valid,          \* validator: the call's result, Pending before it
    message,        \* chunker: the argument of split_message_for_discord (UTF-8)
    remaining,      \* chunker: the text not yet cut
    chunks,         \* chunker: the chunks pushed so far
    splitPc,        \* chunker: "start", "loop", "done" ("panicked": a slice off a boundary)
    sourceText,     \* text processing: the text given to extract_file_paths
    extracted,      \* text processing: its result, Pending before the call
    stripped,       \* text processing: the arguments and the result of
                    \* strip_file_paths, Pending before the call
    stateFile,      \* dispatch: the state document on disk
    request,        \* dispatch: the request being handled, its endpoint and payload
    pc,             \* dispatch: where its handler stands
    loaded,         \* dispatch: the handler's BridgeState, NotLoaded before the load
    channelId,      \* dispatch: the handler's channel_id
    validFiles,     \* dispatch: the handler's valid_files
    pendingChunks,  \* dispatch: the chunks the session.idle loop has yet to visit
    sinkCalls,      \* dispatch: the calls the request made on the chat sink, in order
    response,       \* dispatch: the request's answer, Pending before it
    tokenInput,     \* token: the argument of normalize_discord_token
    tokenOutput     \* token: its result, Pending before the call

resolverVars == <<bridgeState, lookup, found>>
validatorVars == <<fs, validation, valid>>
chunkerVars == <<message, remaining, chunks, splitPc>>
textVars == <<sourceText, extracted, stripped>>
dispatchVars == <<stateFile, request, pc, loaded, channelId, validFiles, pendingChunks, sinkCalls,
                  response>>
tokenVars == <<tokenInput, tokenOutput>>
vars == <<bridgeState, lookup, found, fs, validation, valid, message, remaining, chunks, splitPc,
          sourceText, extracted, stripped, stateFile, request, pc, loaded, channelId, validFiles,
          pendingChunks, sinkCalls, response, tokenInput, tokenOutput>>

\* the value of a variable that a specification does not use
Unused == <<>>

DispatchUnused ==
    /\ stateFile = Unused /\ request = Unused /\ pc = Unused /\ loaded = Unused
    /\ channelId = Unused /\ validFiles = Unused /\ pendingChunks = Unused
    /\ sinkCalls = Unused /\ response = Unused

TokenUnused == tokenInput = Unused /\ tokenOutput = Unused

----------------------------------------------------------------------------
(* Strings and options                                                     *)

None == [some |-> FALSE, v |-> <<>>]
Some(x) == [some |-> TRUE, v |-> x]

\* char::is_whitespace, on the characters the model uses
IsWhitespace(c) == c \in {" ", "\n", "\t"}

RECURSIVE TrimStart(_)
TrimStart(s) ==
    IF s # <<>> /\ IsWhitespace(Head(s)) THEN TrimStart(Tail(s)) ELSE s

RECURSIVE TrimEnd(_)
TrimEnd(s) ==
    IF s # <<>> /\ IsWhitespace(s[Len(s)])
    THEN TrimEnd(SubSeq(s, 1, Len(s) - 1))
    ELSE s

\* str::trim
Trim(s) == TrimEnd(TrimStart(s))

\* Option<&str>.map(str::trim).filter(|v| !v.is_empty())
NonBlank(opt) ==
    IF opt.some /\ Trim(opt.v) # <<>> THEN Some(Trim(opt.v)) ELSE None

\* The byte value of a (single-byte) character, for str's Ord
ByteOf(c) ==
    CASE c = "\t" -> 9
      [] c = "\n" -> 10
      [] c = " " -> 32
      [] c = "0" -> 48
      [] c = "1" -> 49
      [] c = "2" -> 50
      [] c = "3" -> 51
      [] c = "4" -> 52
      [] c = "L" -> 76
      [] c = "c" -> 99
      [] c = "k" -> 107
      [] c = "x" -> 120
      [] c = "y" -> 121

\* a.cmp(b) == Ordering::Less for strings: lexicographic on bytes
RECURSIVE StrLess(_, _)
StrLess(a, b) ==
    IF b = <<>> THEN FALSE
    ELSE IF a = <<>> THEN TRUE
    ELSE IF ByteOf(Head(a)) # ByteOf(Head(b)) THEN ByteOf(Head(a)) < ByteOf(Head(b))
    ELSE StrLess(Tail(a), Tail(b))

----------------------------------------------------------------------------
(* state.rs: BridgeState::find_channel_id                                  *)

\* The iteration orders a HashMap with key set K can produce
Orders(K) ==
    {o \in [1..Cardinality(K) -> K] : \A i, j \in 1..Cardinality(K) : i # j => o[i] # o[j]}

\* filter_map closure: the (id, a_type, channel) of a record, if it has both
\* a non-blank agentType and a non-blank channelId
Candidate(key, value) ==
    LET id == IF NonBlank(value.instance_id).some
              THEN NonBlank(value.instance_id).v ELSE key
        a_type == NonBlank(value.agent_type)
        channel == NonBlank(value.channel_id)
    IN  IF a_type.some /\ channel.some
        THEN <<[id |-> id, a_type |-> a_type.v, channel |-> channel.v]>>
        ELSE <<>>

\* .iter().filter_map(..).collect(), the map iterated in the order order
RECURSIVE Collect(_, _)
Collect(instances, order) ==
    IF order = <<>> THEN <<>>
    ELSE Candidate(Head(order), instances[Head(order)]) \o Collect(instances, Tail(order))

\* InsertById with the comparison reversed (b.0.cmp(&a.0))
RECURSIVE InsertByIdReversed(_, _)
InsertByIdReversed(sorted, e) ==
    IF sorted = <<>> THEN <<e>>
    ELSE IF StrLess(Head(sorted).id, e.id) THEN <<e>> \o sorted
    ELSE <<Head(sorted)>> \o InsertByIdReversed(Tail(sorted), e)

\* where a stable sort puts e in the sorted list: after every element that
\* is not greater
RECURSIVE InsertById(_, _)
InsertById(sorted, e) ==
    IF sorted = <<>> THEN <<e>>
    ELSE IF StrLess(e.id, Head(sorted).id) THEN <<e>> \o sorted
    ELSE <<Head(sorted)>> \o InsertById(Tail(sorted), e)

\* instances.sort_by(|a, b| a.0.cmp(&b.0)): a stable sort
RECURSIVE SortById(_)
SortById(list) ==
    IF list = <<>> THEN <<>>
    ELSE InsertById(SortById(SubSeq(list, 1, Len(list) - 1)), list[Len(list)])

\* .into_iter().find(|(_, a, _)| a == agent_type)
RECURSIVE FindAgent(_, _)
FindAgent(list, agent_type) ==
    IF list = <<>> THEN None
    ELSE IF Head(list).a_type = agent_type THEN Some(Head(list).channel)
    ELSE FindAgent(Tail(list), agent_type)

\* step 1 of find_channel_id: project.instances.get(requested)
ExactInstance(project, instance_id) ==
    IF instance_id.some
       /\ instance_id.v \in DOMAIN project.instances
       /\ project.instances[instance_id.v].channel_id.some
       /\ Trim(project.instances[instance_id.v].channel_id.v) # <<>>
    THEN Some(project.instances[instance_id.v].channel_id.v)
    ELSE None

\* step 2: the sorted candidates' first record of the requested agent
PrimaryInstance(project, agent_type, order) ==
    FindAgent(SortById(Collect(project.instances, order)), agent_type)

\* step 3: project.discord_channels.get(agent_type)
LegacyChannel(project, agent_type) ==
    IF agent_type \in DOMAIN project.discord_channels
    THEN NonBlank(project.discord_channels[agent_type])
    ELSE None

\* find_channel_id; order is the order in which the instances map iterates
FindChannelId(state, project_name, agent_type, instance_id, order) ==
    IF project_name \notin DOMAIN state.projects THEN None
    ELSE LET project == state.projects[project_name]
         IN  IF ExactInstance(project, instance_id).some
             THEN ExactInstance(project, instance_id)
             ELSE IF PrimaryInstance(project, agent_type, order).some
             THEN PrimaryInstance(project, agent_type, order)
             ELSE LegacyChannel(project, agent_type)

\* BridgeState::project_path
ProjectPath(state, project_name) ==
    IF project_name \in DOMAIN state.projects
    THEN state.projects[project_name].project_path
    ELSE None

----------------------------------------------------------------------------
(* The resolver's inputs: state documents with one project                 *)

MaxInstances == 2

Pending == [pending |-> TRUE]
Returned(x) == [pending |-> FALSE, value |-> x]

ProjectName == <<"p">>
AgentX == <<"x">>
AgentY == <<"y">>

AllKeys == << <<"k", "1">>, <<"k", "2">>, <<"k", "3">>, <<"k", "4">> >>
InstanceKeys == {AllKeys[i] : i \in 1..MaxInstances}
MissingKey == <<"k", "0">>

\* the channel a record under key names, with a space to trim
ChannelOf(key) == <<" ", "c", key[2]>>

InstanceRecords(key) ==
    [instance_id : {None, Some(<<" ">>), Some(<<" ", "k", "0">>)},
     agent_type : {None, Some(<<" ", "x">>), Some(<<"y">>)},
     channel_id : {None, Some(<<" ">>), Some(ChannelOf(key))}]

\* the instances maps with keys K
RECURSIVE InstanceMaps(_)
InstanceMaps(K) ==
    IF K = {} THEN {<<>>}
    ELSE LET k == CHOOSE x \in K : TRUE
         IN  {(k :> r) @@ m : r \in InstanceRecords(k), m \in InstanceMaps(K \ {k})}

LegacyMaps ==
    {<<>>} \cup {(AgentX :> ch) : ch \in {None, Some(<<" ">>), Some(<<" ", "L">>)}}

ResolverProjects ==
    UNION {[project_path : {None}, instances : InstanceMaps(K), discord_channels : LegacyMaps]
           : K \in SUBSET InstanceKeys}

ResolverStates ==
    {[projects |-> <<>>]} \cup {[projects |-> (ProjectName :> pr)] : pr \in ResolverProjects}

ResolverLookups ==
    [project_name : {ProjectName},
     agent_type : {AgentX},
     instance_id : {None, Some(AllKeys[1]), Some(MissingKey)}]

InitResolver ==
    /\ bridgeState \in ResolverStates
    /\ lookup \in ResolverLookups
    /\ found = Pending
    /\ fs = Unused /\ validation = Unused /\ valid = Unused
    /\ message = Unused /\ remaining = Unused /\ chunks = Unused /\ splitPc = Unused
    /\ sourceText = Unused /\ extracted = Unused /\ stripped = Unused
    /\ DispatchUnused
    /\ TokenUnused

\* one call of find_channel_id, the instances map iterating in any order
Resolve ==
    /\ found = Pending
    /\ \E order \in
          Orders(IF lookup.project_name \in DOMAIN bridgeState.projects
                 THEN DOMAIN bridgeState.projects[lookup.project_name].instances
                 ELSE {}) :
          found' = Returned(FindChannelId(bridgeState, lookup.project_name,
                                          lookup.agent_type, lookup.instance_id, order))
    /\ UNCHANGED <<bridgeState, lookup, validatorVars, chunkerVars, textVars, dispatchVars, tokenVars>>

NextResolver == Resolve

SpecResolver == InitResolver /\ [][NextResolver]_vars

----------------------------------------------------------------------------
(* C1                                                                      *)

TheProject == bridgeState.projects[lookup.project_name]

\* the records that take part in the primary-instance fallback
Qualifying ==
    {k \in DOMAIN TheProject.instances :
        /\ TheProject.instances[k].agent_type.some
        /\ Trim(TheProject.instances[k].agent_type.v) # <<>>
        /\ TheProject.instances[k].channel_id.some
        /\ Trim(TheProject.instances[k].channel_id.v) # <<>>}

Matching == {k \in Qualifying : Trim(TheProject.instances[k].agent_type.v) = lookup.agent_type}

EffectiveId(k) ==
    IF TheProject.instances[k].instance_id.some
       /\ Trim(TheProject.instances[k].instance_id.v) # <<>>
    THEN Trim(TheProject.instances[k].instance_id.v)
    ELSE k

FirstMatching == {k \in Matching : \A j \in Matching : ~StrLess(EffectiveId(j), EffectiveId(k))}

ExactHit ==
    /\ lookup.instance_id.some
    /\ lookup.instance_id.v \in DOMAIN TheProject.instances
    /\ TheProject.instances[lookup.instance_id.v].channel_id.some
    /\ Trim(TheProject.instances[lookup.instance_id.v].channel_id.v) # <<>>

LegacyHit ==
    /\ lookup.agent_type \in DOMAIN TheProject.discord_channels
    /\ TheProject.discord_channels[lookup.agent_type].some
    /\ Trim(TheProject.discord_channels[lookup.agent_type].v) # <<>>

\* C1: find_channel_id follows the four-step precedence: no project, none;
\* else the exact instance's channel (as stored) when that record has a
\* non-blank channelId, whatever its agentType; else the channel of a record
\* of the requested agent with the least effective instance identifier among
\* the qualifying records; else the legacy channel; else none.  A later
\* step is used only when every earlier one missed.
C1_Precedence ==
    found # Pending =>
        IF lookup.project_name \notin DOMAIN bridgeState.projects
        THEN found.value = None
        ELSE IF ExactHit
        THEN found.value = Some(TheProject.instances[lookup.instance_id.v].channel_id.v)
        ELSE IF Matching # {}
        THEN \E k \in FirstMatching :
                found.value = Some(Trim(TheProject.instances[k].channel_id.v))
        ELSE IF LegacyHit
        THEN found.value = Some(Trim(TheProject.discord_channels[lookup.agent_type].v))
        ELSE found.value = None

\* an instance was asked for and missed, two records of the agent qualify
\* under different identifiers, a legacy channel exists, and the fallback
\* returned the record that the map key order alone would put second
C1_Witness ==
    /\ found # Pending
    /\ lookup.project_name \in DOMAIN bridgeState.projects
    /\ lookup.instance_id.some
    /\ ~ExactHit
    /\ Cardinality(Matching) = 2
    /\ Cardinality(FirstMatching) = 1
    /\ LegacyHit
    /\ found.value = Some(Trim(TheProject.instances[AllKeys[2]].channel_id.v))

----------------------------------------------------------------------------
(* The filesystem, and main.rs: validate_file_paths                        *)
(*                                                                         *)
(* A path is the sequence of its components (std::path::Components): "/"   *)
(* is the root directory, ".." the parent, anything else a name; the empty *)
(* string has no component.  fs maps the absolute, symlink-free location   *)
(* of every existing node (a sequence of names, <<>> the root) to the node. *)

Dir == [kind |-> "dir", target |-> <<>>]
File == [kind |-> "file", target |-> <<>>]
Symlink(t) == [kind |-> "symlink", target |-> t]

\* the working directory of the process
Cwd == <<>>

\* how many symbolic links one resolution follows (Linux: 40)
MaxSymlinks == 2

Ok(p) == [ok |-> TRUE, path |-> p]
Err == [ok |-> FALSE, path |-> <<>>]

\* realpath: the walk from the resolved location cur through rest
RECURSIVE Walk(_, _, _, _)
Walk(fsys, cur, rest, links) ==
    IF rest = <<>> THEN Ok(<<"/">> \o cur)
    ELSE IF Head(rest) = "/" THEN Walk(fsys, <<>>, Tail(rest), links)
    ELSE IF fsys[cur].kind # "dir" THEN Err
    ELSE IF Head(rest) = ".."
    THEN Walk(fsys, IF cur = <<>> THEN <<>> ELSE SubSeq(cur, 1, Len(cur) - 1), Tail(rest), links)
    ELSE LET next == Append(cur, Head(rest))
         IN  IF next \notin DOMAIN fsys THEN Err
             ELSE IF fsys[next].kind = "symlink"
             THEN IF links = 0 THEN Err
                  ELSE Walk(fsys, cur, fsys[next].target \o Tail(rest), links - 1)
             ELSE Walk(fsys, next, Tail(rest), links)

\* fs::canonicalize
Canonicalize(fsys, path) ==
    IF path = <<>> THEN Err ELSE Walk(fsys, Cwd, path, MaxSymlinks)

\* Path::exists: the path resolves, following symbolic links
Exists(fsys, path) == Canonicalize(fsys, path).ok

\* Path::starts_with: base's components are a prefix of path's
StartsWith(path, base) ==
    /\ Len(base) <= Len(path)
    /\ SubSeq(path, 1, Len(base)) = base

\* a file name of the model's filesystem, from its characters; any other
\* name is one that no directory holds
SegmentName(seg) ==
    CASE seg = <<"p", "r", "o", "j">> -> "proj"
      [] seg = <<"p", "r", "o", "j", "X">> -> "projX"
      [] seg = <<"e", "t", "c">> -> "etc"
      [] seg = <<"p", "l", "i", "n", "k">> -> "plink"
      [] seg = <<"l", "i", "n", "k">> -> "link"
      [] seg = <<"s", "u", "b">> -> "sub"
      [] seg = <<"n", "o", "p", "e">> -> "nope"
      [] seg = <<"a", ".", "t", "x", "t">> -> "a.txt"
      [] seg = <<"c", ".", "t", "x", "t">> -> "c.txt"
      [] seg = <<"s", "e", "c", "r", "e", "t", ".", "t", "x", "t">> -> "secret.txt"
      [] seg = <<"m", "i", "s", "s", "i", "n", "g", ".", "t", "x", "t">> -> "missing.txt"
      [] OTHER -> "<other>"

\* the position of the first "/" of raw at or after position i, Len(raw) + 1
\* when there is none
RECURSIVE NextSlash(_, _)
NextSlash(raw, i) ==
    IF i > Len(raw) \/ raw[i] = "/" THEN i ELSE NextSlash(raw, i + 1)

\* the components of raw from position i on: "." and empty segments are
\* dropped, ".." is the parent
RECURSIVE Segments(_, _)
Segments(raw, i) ==
    IF i > Len(raw) THEN <<>>
    ELSE LET j == NextSlash(raw, i)
             seg == SubSeq(raw, i, j - 1)
         IN  (IF seg = <<>> \/ seg = <<".">> THEN <<>>
              ELSE IF seg = <<".", ".">> THEN <<"..">>
              ELSE <<SegmentName(seg)>>)
             \o Segments(raw, j + 1)

\* Path::new(raw).components()
PathComponents(raw) ==
    IF raw # <<>> /\ raw[1] = "/" THEN <<"/">> \o Segments(raw, 2) ELSE Segments(raw, 1)

\* the filter_map closure of validate_file_paths
ValidPath(fsys, raw, project_real) ==
    LET path == PathComponents(raw)
    IN  IF ~Exists(fsys, path) THEN FALSE
        ELSE IF ~Canonicalize(fsys, path).ok THEN FALSE
        ELSE LET real == Canonicalize(fsys, path).path
             IN  real = project_real \/ StartsWith(real, project_real)

RECURSIVE FilterValid(_, _, _)
FilterValid(fsys, paths, project_real) ==
    IF paths = <<>> THEN <<>>
    ELSE (IF ValidPath(fsys, Head(paths), project_real) THEN <<Head(paths)>> ELSE <<>>)
         \o FilterValid(fsys, Tail(paths), project_real)

\* validate_file_paths; project_path is the string of the state document
\* (PathBuf::from in project_path keeps it as it is)
ValidateFilePaths(fsys, paths, project_path) ==
    IF ~project_path.some THEN <<>>
    ELSE LET given == PathComponents(project_path.v)
             project_real ==
                 IF Canonicalize(fsys, given).ok THEN Canonicalize(fsys, given).path ELSE given
         IN  FilterValid(fsys, paths, project_real)

----------------------------------------------------------------------------
(* The validator's inputs                                                  *)

MaxCandidates == 2

\* a project directory with a file, a sub-directory and a symbolic link
\* link; a sibling directory whose name starts with the project's; a
\* directory outside; a symbolic link to the project
FileSystem(linkTarget) ==
    (<<>> :> Dir)
    @@ (<<"proj">> :> Dir)
    @@ (<<"proj", "a.txt">> :> File)
    @@ (<<"proj", "sub">> :> Dir)
    @@ (<<"proj", "sub", "secret.txt">> :> File)
    @@ (<<"proj", "link">> :> Symlink(linkTarget))
    @@ (<<"projX">> :> Dir)
    @@ (<<"projX", "c.txt">> :> File)
    @@ (<<"etc">> :> Dir)
    @@ (<<"etc", "secret.txt">> :> File)
    @@ (<<"plink">> :> Symlink(<<"/", "proj">>))

LinkTargets == {<<"/", "etc">>, <<"/", "proj", "sub">>, <<"/", "nope">>}

FileSystems == {FileSystem(t) : t \in LinkTargets}

\* projectPath as the state document can give it: absent, the empty string,
\* the directory, a relative spelling, a symbolic link to it, a path that
\* does not exist (absolute, relative)
ProjectPaths ==
    {None, Some(<<>>), Some(<<"/", "p", "r", "o", "j">>), Some(<<"p", "r", "o", "j">>), Some(<<"/", "p", "l", "i", "n", "k">>),
     Some(<<"/", "n", "o", "p", "e">>), Some(<<"n", "o", "p", "e">>)}

CandidatePaths ==
    {<<"/", "p", "r", "o", "j", "/", "a", ".", "t", "x", "t">>,
     <<"/", "p", "r", "o", "j", "/", "s", "u", "b", "/", ".", ".", "/", "a", ".", "t", "x", "t">>,
     <<"/", "p", "l", "i", "n", "k", "/", "a", ".", "t", "x", "t">>,
     <<"/", "p", "r", "o", "j">>,
     <<"/", "p", "r", "o", "j", "/", "l", "i", "n", "k", "/", "s", "e", "c", "r", "e", "t", ".", "t", "x", "t">>,
     <<"/", "p", "r", "o", "j", "/", ".", ".", "/", "e", "t", "c", "/", "s", "e", "c", "r", "e", "t", ".", "t", "x", "t">>,
     <<"/", "p", "r", "o", "j", "X", "/", "c", ".", "t", "x", "t">>,
     <<"/", "e", "t", "c", "/", "s", "e", "c", "r", "e", "t", ".", "t", "x", "t">>,
     <<"/", "p", "r", "o", "j", "/", "m", "i", "s", "s", "i", "n", "g", ".", "t", "x", "t">>}

SeqsUpTo(S, n) == UNION {[1..k -> S] : k \in 0..n}

InitValidator ==
    /\ fs \in FileSystems
    /\ validation \in [project_path : ProjectPaths, paths : SeqsUpTo(CandidatePaths, MaxCandidates)]
    /\ valid = Pending
    /\ bridgeState = Unused /\ lookup = Unused /\ found = Unused
    /\ message = Unused /\ remaining = Unused /\ chunks = Unused /\ splitPc = Unused
    /\ sourceText = Unused /\ extracted = Unused /\ stripped = Unused
    /\ DispatchUnused
    /\ TokenUnused

\* one call of validate_file_paths
Validate ==
    /\ valid = Pending
    /\ valid' = Returned(ValidateFilePaths(fs, validation.paths, validation.project_path))
    /\ UNCHANGED <<fs, validation, resolverVars, chunkerVars, textVars, dispatchVars, tokenVars>>

NextValidator == Validate

SpecValidator == InitValidator /\ [][NextValidator]_vars

----------------------------------------------------------------------------
(* C2                                                                      *)

\* s is a sub-sequence of t: the elements of s, in order, among those of t
RECURSIVE IsSubsequence(_, _)
IsSubsequence(s, t) ==
    IF s = <<>> THEN TRUE
    ELSE IF t = <<>> THEN FALSE
    ELSE IF Head(s) = Head(t) THEN IsSubsequence(Tail(s), Tail(t))
    ELSE IsSubsequence(s, Tail(t))

\* the candidate exists and its canonical path is the canonical project
\* root or lies below it, component by component
Confined(fsys, raw, project_path) ==
    /\ project_path.some
    /\ Canonicalize(fsys, PathComponents(project_path.v)).ok
    /\ Canonicalize(fsys, PathComponents(raw)).ok
    /\ StartsWith(Canonicalize(fsys, PathComponents(raw)).path,
                  Canonicalize(fsys, PathComponents(project_path.v)).path)

\* C2: for every candidate list and every projectPath the state document can
\* supply, validate_file_paths returns a sub-sequence of the candidates, as
\* spelled; a candidate is returned only if it exists and its canonical path
\* is the canonical project root or a component-wise descendant of it; with
\* projectPath absent the result is empty.
C2_Confinement ==
    valid # Pending =>
        /\ IsSubsequence(valid.value, validation.paths)
        /\ \A i \in 1..Len(valid.value) :
              Confined(fs, valid.value[i], validation.project_path)
        /\ (~validation.project_path.some => valid.value = <<>>)

\* what the code does keep: the same, for every projectPath but the empty
\* string
C2_ConfinementUnlessEmptyRoot ==
    valid # Pending /\ validation.project_path # Some(<<>>) =>
        /\ IsSubsequence(valid.value, validation.paths)
        /\ \A i \in 1..Len(valid.value) :
              Confined(fs, valid.value[i], validation.project_path)
        /\ (~validation.project_path.some => valid.value = <<>>)

----------------------------------------------------------------------------
(* parser.rs: split_message_for_discord                                    *)
(*                                                                         *)
(* A str is the sequence of its UTF-8 bytes: a single-byte character is    *)
(* itself, a multi-byte character is its lead byte followed by             *)
(* continuation bytes Cont.  Offsets are byte offsets, from 0, as in the   *)
(* code.                                                                   *)

\* DISCORD_MAX_MESSAGE_LENGTH, scaled from 2000 so that messages longer
\* than the limit can be enumerated
DISCORD_MAX_MESSAGE_LENGTH == 4

Cont == "~"

\* the UTF-8 encoding of a character: "E" stands for a two-byte character,
\* "C" for a four-byte one, every other character is a single byte
Utf8(c) ==
    CASE c = "E" -> <<"E", Cont>>
      [] c = "C" -> <<"C", Cont, Cont, Cont>>
      [] OTHER -> <<c>>

RECURSIVE Encode(_)
Encode(chars) == IF chars = <<>> THEN <<>> ELSE Utf8(Head(chars)) \o Encode(Tail(chars))

\* str::is_char_boundary
IsCharBoundary(s, idx) == idx = 0 \/ idx = Len(s) \/ (idx < Len(s) /\ s[idx + 1] # Cont)

\* the byte offsets at which a character starts, from 0
CharStarts(s) == {i - 1 : i \in {j \in 1..Len(s) : s[j] # Cont}}

\* s.chars().count()
CharCount(s) == Cardinality(CharStarts(s))

\* s.char_indices().nth(n).map_or(s.len(), |(idx, _)| idx)
NthCharOffset(s, n) ==
    LET starts == CharStarts(s)
    IN  IF Cardinality(starts) > n
        THEN CHOOSE i \in starts : Cardinality({j \in starts : j < i}) = n
        ELSE Len(s)

\* s.rfind(c): the byte offset of the last c
RFind(s, c) ==
    IF \E i \in 1..Len(s) : s[i] = c
    THEN Some((CHOOSE i \in 1..Len(s) : s[i] = c /\ \A j \in (i + 1)..Len(s) : s[j] # c) - 1)
    ELSE None

\* &s[..end] and &s[start..]
SliceTo(s, end) == SubSeq(s, 1, end)
SliceFrom(s, start) == SubSeq(s, start + 1, Len(s))

\* chunk_end with the limit taken in bytes (&remaining[..LIMIT]) instead of
\* in characters
ChunkEndInBytes(rem) ==
    LET hard_split == IF Len(rem) > DISCORD_MAX_MESSAGE_LENGTH
                      THEN DISCORD_MAX_MESSAGE_LENGTH ELSE Len(rem)
    IN  IF hard_split = Len(rem) THEN hard_split
        ELSE LET search_area == SliceTo(rem, hard_split)
                 newline == RFind(search_area, "\n")
                 space == RFind(search_area, " ")
             IN  IF newline.some
                 THEN IF CharCount(SliceTo(search_area, newline.v))
                            >= DISCORD_MAX_MESSAGE_LENGTH \div 2
                      THEN newline.v + 1
                      ELSE IF space.some THEN space.v + 1 ELSE hard_split
                 ELSE IF space.some THEN space.v + 1
                 ELSE hard_split

\* one iteration's chunk_end (parser.rs lines 17-38)
ChunkEnd(rem) ==
    LET hard_split == NthCharOffset(rem, DISCORD_MAX_MESSAGE_LENGTH)
    IN  IF hard_split = Len(rem) THEN hard_split
        ELSE LET search_area == SliceTo(rem, hard_split)
                 newline == RFind(search_area, "\n")
                 space == RFind(search_area, " ")
             IN  IF newline.some
                 THEN IF CharCount(SliceTo(search_area, newline.v))
                            >= DISCORD_MAX_MESSAGE_LENGTH \div 2
                      THEN newline.v + 1
                      ELSE IF space.some THEN space.v + 1 ELSE hard_split
                 ELSE IF space.some THEN space.v + 1
                 ELSE hard_split

\* the while loop of split_message_for_discord, from rem on
RECURSIVE SplitLoop(_)
SplitLoop(rem) ==
    IF rem = <<>> THEN <<>>
    ELSE LET chunk_end == ChunkEnd(rem)
         IN  <<SliceTo(rem, chunk_end)>> \o SplitLoop(SliceFrom(rem, chunk_end))

\* split_message_for_discord, as a function (split_for_discord is the same)
SplitMessageForDiscord(msg) ==
    IF CharCount(msg) <= DISCORD_MAX_MESSAGE_LENGTH THEN <<msg>> ELSE SplitLoop(msg)

\* the slices one iteration takes are all on character boundaries (a slice
\* off a boundary panics)
SlicesOnBoundaries(rem) ==
    LET hard_split == NthCharOffset(rem, DISCORD_MAX_MESSAGE_LENGTH)
        search_area == SliceTo(rem, hard_split)
        newline == RFind(search_area, "\n")
    IN  /\ IsCharBoundary(rem, hard_split)
        /\ (hard_split # Len(rem) /\ newline.some => IsCharBoundary(search_area, newline.v))
        /\ IsCharBoundary(rem, ChunkEnd(rem))

MaxMessageChars == 7

ChunkerAlphabet == {"a", " ", "\n", "E"}

InitChunker ==
    /\ message \in {Encode(cs) : cs \in SeqsUpTo(ChunkerAlphabet, MaxMessageChars)}
    /\ remaining = <<>>
    /\ chunks = <<>>
    /\ splitPc = "start"
    /\ bridgeState = Unused /\ lookup = Unused /\ found = Unused
    /\ fs = Unused /\ validation = Unused /\ valid = Unused
    /\ sourceText = Unused /\ extracted = Unused /\ stripped = Unused
    /\ DispatchUnused
    /\ TokenUnused

\* lines 9-14: a message within the limit is returned whole
SplitStart ==
    /\ splitPc = "start"
    /\ IF CharCount(message) <= DISCORD_MAX_MESSAGE_LENGTH
       THEN /\ chunks' = <<message>>
            /\ splitPc' = "done"
            /\ UNCHANGED remaining
       ELSE /\ remaining' = message
            /\ splitPc' = "loop"
            /\ UNCHANGED chunks
    /\ UNCHANGED <<message, resolverVars, validatorVars, textVars, dispatchVars, tokenVars>>

\* lines 16-42: one iteration of the loop
SplitStep ==
    /\ splitPc = "loop"
    /\ remaining # <<>>
    /\ IF SlicesOnBoundaries(remaining)
       THEN /\ chunks' = Append(chunks, SliceTo(remaining, ChunkEnd(remaining)))
            /\ remaining' = SliceFrom(remaining, ChunkEnd(remaining))
            /\ UNCHANGED splitPc
       ELSE /\ splitPc' = "panicked"
            /\ UNCHANGED <<chunks, remaining>>
    /\ UNCHANGED <<message, resolverVars, validatorVars, textVars, dispatchVars, tokenVars>>

\* lines 16, 44: the loop ends, the chunks are returned
SplitReturn ==
    /\ splitPc = "loop"
    /\ remaining = <<>>
    /\ splitPc' = "done"
    /\ UNCHANGED <<message, remaining, chunks, resolverVars, validatorVars, textVars, dispatchVars, tokenVars>>

NextChunker == SplitStart \/ SplitStep \/ SplitReturn

SpecChunker == InitChunker /\ [][NextChunker]_vars

----------------------------------------------------------------------------
(* C3                                                                      *)

RECURSIVE Concat(_)
Concat(list) == IF list = <<>> THEN <<>> ELSE Head(list) \o Concat(Tail(list))

\* C3: the chunks of split_message_for_discord(s), concatenated in order,
\* are s; every chunk has at most DISCORD_MAX_MESSAGE_LENGTH characters; no
\* cut falls inside a character (no chunk starts with a continuation byte,
\* no slice panics).
C3_ChunksReproduceMessage ==
    /\ splitPc # "panicked"
    /\ splitPc = "done" =>
          /\ Concat(chunks) = message
          /\ \A i \in 1..Len(chunks) :
                /\ CharCount(chunks[i]) <= DISCORD_MAX_MESSAGE_LENGTH
                /\ (chunks[i] # <<>> => chunks[i][1] # Cont)

\* a message longer than the limit, cut after a newline into a first chunk
\* of multi-byte characters that has more bytes than the limit
C3_Witness ==
    /\ splitPc = "done"
    /\ Len(chunks) = 2
    /\ Len(chunks[1]) > DISCORD_MAX_MESSAGE_LENGTH
    /\ chunks[1][Len(chunks[1])] = "\n"
    /\ \E i \in 1..Len(chunks[1]) : chunks[1][i] = Cont
    /\ \E i \in 1..Len(chunks[2]) : chunks[2][i] = Cont

----------------------------------------------------------------------------
(* parser.rs: extract_file_paths                                           *)
(*                                                                         *)
(* The regex crate's search is computed as the crate computes it: the      *)
(* leftmost match, alternatives and repetitions tried in the pattern's     *)
(* preference order, successive matches not overlapping (each search       *)
(* starts where the previous match ended).  Positions count from 1.        *)

\* (?i): the lower-case form of an ASCII letter
Lower(c) ==
    CASE c = "A" -> "a"
      [] c = "B" -> "b"
      [] c = "C" -> "c"
      [] c = "D" -> "d"
      [] c = "E" -> "e"
      [] c = "F" -> "f"
      [] c = "G" -> "g"
      [] c = "H" -> "h"
      [] c = "I" -> "i"
      [] c = "J" -> "j"
      [] c = "K" -> "k"
      [] c = "L" -> "l"
      [] c = "M" -> "m"
      [] c = "N" -> "n"
      [] c = "O" -> "o"
      [] c = "P" -> "p"
      [] c = "Q" -> "q"
      [] c = "R" -> "r"
      [] c = "S" -> "s"
      [] c = "T" -> "t"
      [] c = "U" -> "u"
      [] c = "V" -> "v"
      [] c = "W" -> "w"
      [] c = "X" -> "x"
      [] c = "Y" -> "y"
      [] c = "Z" -> "z"
      [] OTHER -> c

\* the backtick character (a name, since a TLA+ string cannot hold it)
Backtick == "<backtick>"

\* the class of left delimiters: whitespace, backtick, the two quotes, ( and [
LeftDelims == {" ", "\n", "\t", Backtick, "\"", "'", "(", "["}

\* the characters a path cannot contain: whitespace, backtick, the two
\* quotes, ) and ]
PathExcluded == {" ", "\n", "\t", Backtick, "\"", "'", ")", "]"}

\* the class of right delimiters: whitespace, backtick, the two quotes, ),
\* ] and . , ; : ! ?
RightDelims == {" ", "\n", "\t", Backtick, "\"", "'", ")", "]", ".", ",", ";", ":", "!", "?"}

\* png|jpg|jpeg|gif|webp|svg|bmp|pdf|docx|pptx|xlsx|csv|json|txt
Extensions ==
    << <<"p", "n", "g">>,
       <<"j", "p", "g">>,
       <<"j", "p", "e", "g">>,
       <<"g", "i", "f">>,
       <<"w", "e", "b", "p">>,
       <<"s", "v", "g">>,
       <<"b", "m", "p">>,
       <<"p", "d", "f">>,
       <<"d", "o", "c", "x">>,
       <<"p", "p", "t", "x">>,
       <<"x", "l", "s", "x">>,
       <<"c", "s", "v">>,
       <<"j", "s", "o", "n">>,
       <<"t", "x", "t">> >>

\* the literal lit is at position i of text
LiteralAt(text, i, lit) ==
    /\ i + Len(lit) - 1 <= Len(text)
    /\ \A k \in 1..Len(lit) : text[i + k - 1] = lit[k]

\* \.(?:ext) is at position q of text, whatever the case of its letters
ExtensionAt(text, q, ext) ==
    /\ q + Len(ext) <= Len(text)
    /\ text[q] = "."
    /\ \A k \in 1..Len(ext) : Lower(text[q + k]) = ext[k]

\* (?:$|[right delimiters]) at position e: the position after the match
RightBoundary(text, e) ==
    IF e = Len(text) + 1 THEN Some(e)
    ELSE IF text[e] \in RightDelims THEN Some(e + 1)
    ELSE None

\* the length of the longest run of path characters from position i on
RECURSIVE PathRun(_, _)
PathRun(text, i) ==
    IF i > Len(text) \/ text[i] \in PathExcluded THEN 0 ELSE 1 + PathRun(text, i + 1)

\* the run lengths n of [^...]+ after which \.(ext) and the right boundary
\* match, the path starting at p
PathLengths(text, p) ==
    {n \in 1..PathRun(text, p + 1) :
        \E x \in 1..Len(Extensions) :
            /\ ExtensionAt(text, p + 1 + n, Extensions[x])
            /\ RightBoundary(text, p + 2 + n + Len(Extensions[x])).some}

\* group 1 and the right boundary matched from position p: the greedy
\* repetition keeps the longest run that lets the rest match
PathAt(text, p) ==
    IF p > Len(text) \/ text[p] # "/" THEN None
    ELSE LET lengths == PathLengths(text, p)
         IN  IF lengths = {} THEN None
             ELSE LET n == CHOOSE m \in lengths : \A k \in lengths : k <= m
                      x == CHOOSE y \in 1..Len(Extensions) :
                              /\ ExtensionAt(text, p + 1 + n, Extensions[y])
                              /\ RightBoundary(text, p + 2 + n + Len(Extensions[y])).some
                      pathEnd == p + 1 + n + Len(Extensions[x])
                  IN  Some([first |-> p, last |-> pathEnd,
                            next |-> RightBoundary(text, pathEnd + 1).v])

\* a match of the whole pattern starting at position s: ^ first, then a
\* left delimiter
MatchAt(text, s) ==
    IF s = 1 /\ text[1] = "/"
    THEN PathAt(text, 1)
    ELSE IF s <= Len(text) /\ text[s] \in LeftDelims THEN PathAt(text, s + 1)
    ELSE None

\* the leftmost match at or after position from
RECURSIVE FindFrom(_, _)
FindFrom(text, from) ==
    IF from > Len(text) THEN None
    ELSE LET m == MatchAt(text, from)
         IN  IF m.some THEN m ELSE FindFrom(text, from + 1)

\* captures_iter: group 1 of every successive match
RECURSIVE Captures(_, _)
Captures(text, from) ==
    LET found_ == FindFrom(text, from)
    IN  IF ~found_.some THEN <<>>
        ELSE <<SubSeq(text, found_.v.first, found_.v.last)>> \o Captures(text, found_.v.next)

Contains(list, e) == \E i \in 1..Len(list) : list[i] = e

\* the seen set: a path is pushed the first time it is captured
RECURSIVE Dedup(_, _)
Dedup(list, paths) ==
    IF list = <<>> THEN paths
    ELSE Dedup(Tail(list), IF Contains(paths, Head(list)) THEN paths ELSE Append(paths, Head(list)))

\* extract_file_paths
ExtractFilePaths(text) == Dedup(Captures(text, 1), <<>>)

----------------------------------------------------------------------------
(* parser.rs: strip_file_paths                                             *)

\* Regex::new(literal).replace_all(text, ""): every successive occurrence
\* of the literal, from position i on, removed
RECURSIVE RemoveLiteral(_, _, _)
RemoveLiteral(text, i, lit) ==
    IF i > Len(text) THEN <<>>
    ELSE IF LiteralAt(text, i, lit) THEN RemoveLiteral(text, i + Len(lit), lit)
    ELSE <<text[i]>> \o RemoveLiteral(text, i + 1, lit)

\* the position of the first "]" at or after position i, 0 when there is none
RECURSIVE FirstBracket(_, _)
FirstBracket(text, i) ==
    IF i > Len(text) THEN 0
    ELSE IF text[i] = "]" THEN i
    ELSE FirstBracket(text, i + 1)

\* !\[[^\]]*\]\(PATH\) at position i: the position after the match, 0 when
\* it does not match
ImageAt(text, i, path) ==
    IF LiteralAt(text, i, <<"!", "[">>) /\ FirstBracket(text, i + 2) # 0
    THEN LET j == FirstBracket(text, i + 2)
         IN  IF LiteralAt(text, j, <<"]", "(">> \o path \o <<")">>)
             THEN j + Len(path) + 3
             ELSE 0
    ELSE 0

\* image_re.replace_all(text, "")
RECURSIVE RemoveImages(_, _, _)
RemoveImages(text, i, path) ==
    IF i > Len(text) THEN <<>>
    ELSE LET after == ImageAt(text, i, path)
         IN  IF after # 0 THEN RemoveImages(text, after, path)
             ELSE <<text[i]>> \o RemoveImages(text, i + 1, path)

\* the three substitutions for one path (lines 80-90)
StripPath(text, path) ==
    RemoveLiteral(
        RemoveLiteral(RemoveImages(text, 1, path), 1, <<Backtick>> \o path \o <<Backtick>>),
        1, path)

\* the for loop over file_paths
RECURSIVE StripPaths(_, _)
StripPaths(text, file_paths) ==
    IF file_paths = <<>> THEN text
    ELSE StripPaths(StripPath(text, Head(file_paths)), Tail(file_paths))

\* the length of the run of characters of the set S from position i on
RECURSIVE RunOf(_, _, _)
RunOf(text, i, S) ==
    IF i > Len(text) \/ text[i] \notin S THEN 0 ELSE 1 + RunOf(text, i + 1, S)

\* newline_re.replace_all(text, "\n\n"): \n{3,} is greedy
RECURSIVE CollapseNewlines(_, _)
CollapseNewlines(text, i) ==
    IF i > Len(text) THEN <<>>
    ELSE LET n == RunOf(text, i, {"\n"})
         IN  IF n >= 3 THEN <<"\n", "\n">> \o CollapseNewlines(text, i + n)
             ELSE <<text[i]>> \o CollapseNewlines(text, i + 1)

\* (?m)^[ \t]+$ at position i: the length of the match, 0 when it does not
\* match
BlankLineAt(text, i) ==
    LET n == RunOf(text, i, {" ", "\t"})
    IN  IF /\ (i = 1 \/ text[i - 1] = "\n")
           /\ n > 0
           /\ (i + n > Len(text) \/ text[i + n] = "\n")
        THEN n
        ELSE 0

\* blank_ws_line.replace_all(text, "")
RECURSIVE RemoveBlankLines(_, _)
RemoveBlankLines(text, i) ==
    IF i > Len(text) THEN <<>>
    ELSE LET n == BlankLineAt(text, i)
         IN  IF n > 0 THEN RemoveBlankLines(text, i + n)
             ELSE <<text[i]>> \o RemoveBlankLines(text, i + 1)

\* strip_file_paths
StripFilePaths(text, file_paths) ==
    RemoveBlankLines(CollapseNewlines(StripPaths(text, file_paths), 1), 1)

----------------------------------------------------------------------------
(* The text processing's inputs: texts made of up to MaxTokens of a few    *)
(* tokens (the parts of a path, a space), and of up to MaxRichTokens of    *)
(* more tokens (two paths, the image and backtick forms, line breaks,      *)
(* blanks, a word)                                                         *)

MaxTokens == 8
MaxRichTokens == 4

PathTokens == {<<"/", "a">>, <<".", "p", "n", "g">>, <<" ">>}

RichTokens ==
    {<<"/", "a", ".", "p", "n", "g">>,
     <<"/", "b", ".", "P", "D", "F">>,
     <<Backtick>>,
     <<"!", "[", "x", "]", "(">>,
     <<")">>,
     <<"\n">>,
     <<" ">>,
     <<"\t">>,
     <<"x", ",">>}

Texts ==
    {Concat(ts) : ts \in SeqsUpTo(PathTokens, MaxTokens)}
    \cup {Concat(ts) : ts \in SeqsUpTo(RichTokens, MaxRichTokens)}

InitText ==
    /\ sourceText \in Texts
    /\ extracted = Pending
    /\ stripped = Pending
    /\ bridgeState = Unused /\ lookup = Unused /\ found = Unused
    /\ fs = Unused /\ validation = Unused /\ valid = Unused
    /\ message = Unused /\ remaining = Unused /\ chunks = Unused /\ splitPc = Unused
    /\ DispatchUnused
    /\ TokenUnused

\* one call of extract_file_paths
Extract ==
    /\ extracted = Pending
    /\ extracted' = Returned(ExtractFilePaths(sourceText))
    /\ UNCHANGED <<sourceText, stripped, resolverVars, validatorVars, chunkerVars, dispatchVars, tokenVars>>

\* one call of strip_file_paths, with the extracted paths or with none
Strip ==
    /\ extracted # Pending
    /\ stripped = Pending
    /\ \E file_paths \in {extracted.value, <<>>} :
          stripped' = [pending |-> FALSE, file_paths |-> file_paths,
                       value |-> StripFilePaths(sourceText, file_paths)]
    /\ UNCHANGED <<sourceText, extracted, resolverVars, validatorVars, chunkerVars, dispatchVars, tokenVars>>

NextText == Extract \/ Strip

SpecText == InitText /\ [][NextText]_vars

----------------------------------------------------------------------------
(* C8, C9, C10                                                             *)

\* text[i..j] is an absolute path of a recognised type: a "/", at least one
\* more character, a dot and an extension, with no character that a path
\* cannot contain
IsPath(text, i, j) ==
    /\ text[i] = "/"
    /\ \A k \in (i + 1)..j : text[k] \notin PathExcluded
    /\ \E x \in 1..Len(Extensions) :
          /\ j - Len(Extensions[x]) - 1 >= i + 1
          /\ ExtensionAt(text, j - Len(Extensions[x]), Extensions[x])

\* text[i..j] is bounded by the start of the text or a left delimiter, and
\* by the end of the text or a right delimiter
Bounded(text, i, j) ==
    /\ (i = 1 \/ text[i - 1] \in LeftDelims)
    /\ (j = Len(text) \/ text[j + 1] \in RightDelims)

\* the bounded paths of the text, each taken as far as it goes: of the
\* bounded paths that start at one position, the longest
BoundedPaths(text) ==
    {<<i, j>> \in (1..Len(text)) \X (1..Len(text)) :
        /\ i < j
        /\ IsPath(text, i, j) /\ Bounded(text, i, j)
        /\ \A k \in (j + 1)..Len(text) : ~(IsPath(text, i, k) /\ Bounded(text, i, k))}

\* C8: extract_file_paths returns every absolute path of a recognised type
\* that the text holds between a left bound (start, left delimiter) and a
\* right bound (end, right delimiter), also when several paths follow each
\* other with one delimiter between them.
C8_EveryBoundedPathExtracted ==
    extracted # Pending =>
        \A ij \in BoundedPaths(sourceText) :
            Contains(extracted.value, SubSeq(sourceText, ij[1], ij[2]))

\* p occurs in text
IsSubstring(p, text) == \E i \in 1..(Len(text) - Len(p) + 1) : LiteralAt(text, i, p)

\* C9: with P = extract_file_paths(t), strip_file_paths(t, P) contains no
\* element of P as a substring.
C9_NoExtractedPathRemains ==
    stripped # Pending /\ stripped.file_paths = extracted.value =>
        \A k \in 1..Len(extracted.value) : ~IsSubstring(extracted.value[k], stripped.value)

\* text has a line made of spaces and tabs only
HasBlankLine(text) ==
    \E i \in 1..Len(text) :
        /\ (i = 1 \/ text[i - 1] = "\n")
        /\ RunOf(text, i, {" ", "\t"}) > 0
        /\ (i + RunOf(text, i, {" ", "\t"}) > Len(text)
            \/ text[i + RunOf(text, i, {" ", "\t"})] = "\n")

\* C10: the output of strip_file_paths has neither three newlines in a row
\* nor a line made of spaces and tabs only.
C10_NoScars ==
    stripped # Pending =>
        /\ ~IsSubstring(<<"\n", "\n", "\n">>, stripped.value)
        /\ ~HasBlankLine(stripped.value)

\* the half of C10 that the code keeps: no line of spaces and tabs only
C10_NoBlankLine == stripped # Pending => ~HasBlankLine(stripped.value)

----------------------------------------------------------------------------
(* The events of the two endpoints (event.rs)                              *)

\* JSON values of a payload's fields
JNull == [json |-> "null"]
JString(str) == [json |-> "string", s |-> str]
JNumber == [json |-> "number"]
JArray(items) == [json |-> "array", items |-> items]
JObject(fields) == [json |-> "object", fields |-> fields]

\* Option<String>: null (or absent) and strings deserialize, nothing else
IsOptionString(value) == value.json \in {"null", "string"}
OptionString(value) == IF value.json = "string" THEN Some(value.s) ELSE None

\* serde_json::from_value::<OpencodeEvent>
OpencodeEventFromValue(payload) ==
    IF payload.json # "object" THEN Err
    ELSE LET f == payload.fields
         IN  IF \E name \in DOMAIN f : ~IsOptionString(f[name]) THEN Err
             ELSE [ok |-> TRUE,
                   event |-> [project_name |-> OptionString(f.projectName),
                              agent_type |-> OptionString(f.agentType),
                              instance_id |-> OptionString(f.instanceId),
                              event_type |-> OptionString(f.type),
                              text |-> OptionString(f.text),
                              message |-> OptionString(f.message),
                              turn_text |-> OptionString(f.turnText)]]

\* serde_json::from_value::<SendFilesEvent>; files is an array of strings
SendFilesEventFromValue(payload) ==
    IF payload.json # "object" THEN Err
    ELSE LET f == payload.fields
         IN  IF \/ \E name \in DOMAIN f \ {"files"} : ~IsOptionString(f[name])
                \/ f.files.json # "array"
             THEN Err
             ELSE [ok |-> TRUE,
                   event |-> [project_name |-> OptionString(f.projectName),
                              agent_type |-> OptionString(f.agentType),
                              instance_id |-> OptionString(f.instanceId),
                              files |-> f.files.items]]

OpencodeAgent == <<"o", "p", "e", "n", "c", "o", "d", "e">>

\* the accessors of OpencodeEvent and SendFilesEvent
ProjectNameOf(event) == NonBlank(event.project_name)
AgentTypeOf(event) ==
    IF NonBlank(event.agent_type).some THEN NonBlank(event.agent_type).v ELSE OpencodeAgent
InstanceIdOf(event) == NonBlank(event.instance_id)
EventTypeOf(event) == NonBlank(event.event_type)
EventTextOf(event) ==
    IF NonBlank(event.text).some THEN NonBlank(event.text) ELSE NonBlank(event.message)
TurnTextOf(event) == NonBlank(event.turn_text)

----------------------------------------------------------------------------
(* The state document on disk (state.rs) and the chat sink (discord.rs)    *)

\* BridgeState::default
EmptyState == [projects |-> <<>>]

\* BridgeState::load: a file that cannot be read or parsed is the empty state
BridgeStateLoad(file) == IF file.kind = "document" THEN file.doc ELSE EmptyState

\* the nodes tokio::fs::read opens for paths, in order, up to and including
\* the first that cannot be read; a path is opened through its symbolic links
RECURSIVE ReadFiles(_, _)
ReadFiles(fsys, paths) ==
    IF paths = <<>> THEN <<>>
    ELSE LET real == Canonicalize(fsys, PathComponents(Head(paths)))
             opened == IF real.ok /\ fsys[Tail(real.path)].kind = "file" THEN real ELSE Err
         IN  IF opened.ok THEN <<opened>> \o ReadFiles(fsys, Tail(paths)) ELSE <<opened>>

\* DiscordClient::send_message: the content is split and posted piece by
\* piece, and a post that fails ends the call.  The calls it can turn out to
\* be: every post succeeds, or the post numbered failAt is the one that fails
\* (content is UTF-8)
SendMessageCalls(channel_id, content) ==
    LET pieces == SplitMessageForDiscord(content)
    IN  {[op |-> "send_message", channel_id |-> channel_id, content |-> content,
          file_paths |-> <<>>, read |-> <<>>,
          posts |-> [i \in 1..(IF failAt = 0 THEN Len(pieces) ELSE failAt) |->
                        [content |-> pieces[i], ok |-> i # failAt]],
          ok |-> failAt = 0] : failAt \in 0..Len(pieces)}

\* DiscordClient::send_files as the handler sees it: the files it read, and
\* its result (a file that cannot be read fails the call before the upload)
SendFilesCall(fsys, channel_id, content, file_paths, delivered) ==
    LET read == ReadFiles(fsys, file_paths)
    IN  [op |-> "send_files", channel_id |-> channel_id, content |-> content,
         file_paths |-> file_paths, read |-> read, posts |-> <<>>,
         ok |-> delivered /\ \A i \in 1..Len(read) : read[i].ok]

\* the handlers' answers
Answer(status, body) == [pending |-> FALSE, status |-> status, body |-> body]

----------------------------------------------------------------------------
(* The dispatcher's inputs                                                 *)

OtherProject == <<"q">>

\* an instance record of agent with the channel of its key
InstanceOf(key, agent) ==
    [instance_id |-> None, agent_type |-> Some(agent), channel_id |-> Some(ChannelOf(key))]

\* the project of a state document: its root and its channels
ProjectOf(project_path, instances, discord_channels) ==
    [project_path |-> project_path, instances |-> instances,
     discord_channels |-> discord_channels]

\* state documents: two instances under the project directory; a legacy
\* channel only, the root spelled through a symbolic link; an instance of
\* another agent only; no root
Documents ==
    {[projects |-> (ProjectName :>
         ProjectOf(Some(<<"/", "p", "r", "o", "j">>),
                   (AllKeys[1] :> InstanceOf(AllKeys[1], OpencodeAgent))
                   @@ (AllKeys[2] :> InstanceOf(AllKeys[2], AgentX)),
                   <<>>))],
     [projects |-> (ProjectName :>
         ProjectOf(Some(<<"/", "p", "l", "i", "n", "k">>), <<>>,
                   (OpencodeAgent :> Some(<<" ", "L">>))))],
     [projects |-> (ProjectName :>
         ProjectOf(Some(<<"/", "p", "r", "o", "j">>),
                   (AllKeys[1] :> InstanceOf(AllKeys[1], AgentY)), <<>>))],
     [projects |-> (ProjectName :>
         ProjectOf(None, (AllKeys[1] :> InstanceOf(AllKeys[1], OpencodeAgent)), <<>>))]}

\* what the state path holds: nothing, text that does not parse, a document
StateFiles ==
    {[kind |-> "missing"], [kind |-> "garbage"]}
    \cup {[kind |-> "document", doc |-> doc] : doc \in Documents}

SessionIdle == <<"s", "e", "s", "s", "i", "o", "n", ".", "i", "d", "l", "e">>
SessionError == <<"s", "e", "s", "s", "i", "o", "n", ".", "e", "r", "r", "o", "r">>

ProjectNameValues == {JNull, JString(<<" ">>), JString(<<" ", "p", " ">>), JString(OtherProject)}
AgentTypeValues == {JNull, JString(<<" ", "x">>)}
InstanceIdValues == {JNull, JString(AllKeys[1])}
TypeValues ==
    {JNull, JString(SessionIdle), JString(<<" ">> \o SessionError \o <<" ">>),
     JString(<<"o", "t", "h", "e", "r">>)}

\* text and message: absent, blank, a path alone, words around a blank run
\* and a path, a path outside the project
TextValues ==
    {JNull, JString(<<" ", " ">>),
     JString(<<"/", "p", "r", "o", "j", "/", "a", ".", "t", "x", "t">>),
     JString(<<"a", "b", "c", "d", " ", " ", " ", " ", "e", "f", " ", "/", "p", "r", "o", "j", "/", "a", ".", "t", "x", "t">>),
     JString(<<"/", "e", "t", "c", "/", "s", "e", "c", "r", "e", "t", ".", "t", "x", "t">>)}

MessageValues == {JNull, JString(<<"m">>)}

\* turnText: absent, blank, a file of the project, a file behind the
\* project's symbolic link
TurnTextValues ==
    {JNull, JString(<<" ">>),
     JString(<<"/", "p", "r", "o", "j", "/", "a", ".", "t", "x", "t">>),
     JString(<<"/", "p", "r", "o", "j", "/", "l", "i", "n", "k", "/", "s", "e", "c", "r", "e", "t", ".", "t", "x", "t">>)}

EventObject(projectName, agentType, instanceId, type, text, msg, turnText) ==
    JObject([projectName |-> projectName, agentType |-> agentType,
             instanceId |-> instanceId, type |-> type, text |-> text,
             message |-> msg, turnText |-> turnText])

\* payloads of opencode-event: every routing, every content, and payloads
\* that do not deserialize (not an object; a number where a string belongs)
EventPayloads ==
    {EventObject(pn, at, ii, ty, tx, JNull, JNull) :
        pn \in ProjectNameValues, at \in AgentTypeValues, ii \in InstanceIdValues,
        ty \in TypeValues, tx \in {JNull, JString(<<"o", "k">>)}}
    \cup {EventObject(JString(<<" ", "p", " ">>), JNull, JNull, ty, tx, ms, tt) :
        ty \in {JString(SessionIdle), JString(SessionError)}, tx \in TextValues,
        ms \in MessageValues, tt \in TurnTextValues}
    \cup {JArray(<<>>),
          EventObject(JString(ProjectName), JNull, JNull, JString(SessionError), JNumber,
                      JNull, JNull)}

FilesValues ==
    {JArray(<<>>),
     JArray(<<<<"/", "p", "r", "o", "j", "/", "a", ".", "t", "x", "t">>>>),
     JArray(<<<<"/", "e", "t", "c", "/", "s", "e", "c", "r", "e", "t", ".", "t", "x", "t">>>>),
     JArray(<<<<"/", "p", "r", "o", "j", "/", "l", "i", "n", "k", "/", "s", "e", "c", "r", "e", "t", ".", "t", "x", "t">>,
              <<"/", "p", "r", "o", "j", "/", "a", ".", "t", "x", "t">>>>),
     JNumber}

FilesObject(projectName, agentType, instanceId, files) ==
    JObject([projectName |-> projectName, agentType |-> agentType,
             instanceId |-> instanceId, files |-> files])

\* payloads of send-files
FilesPayloads ==
    {FilesObject(pn, at, ii, fl) :
        pn \in ProjectNameValues, at \in AgentTypeValues, ii \in InstanceIdValues,
        fl \in FilesValues}
    \cup {JArray(<<>>)}

Requests ==
    {[endpoint |-> "opencode-event", payload |-> p] : p \in EventPayloads}
    \cup {[endpoint |-> "send-files", payload |-> p] : p \in FilesPayloads}

\* the BridgeState of a handler that has not loaded it
NotLoaded == [loaded |-> FALSE]

----------------------------------------------------------------------------
(* main.rs: the handlers, one action per step between two reads or calls   *)

InitDispatch ==
    /\ stateFile \in StateFiles
    /\ fs \in FileSystems
    /\ request = Unused
    /\ pc = "idle"
    /\ loaded = NotLoaded
    /\ channelId = None
    /\ validFiles = <<>>
    /\ pendingChunks = <<>>
    /\ sinkCalls = <<>>
    /\ response = Pending
    /\ bridgeState = Unused /\ lookup = Unused /\ found = Unused
    /\ validation = Unused /\ valid = Unused
    /\ message = Unused /\ remaining = Unused /\ chunks = Unused /\ splitPc = Unused
    /\ sourceText = Unused /\ extracted = Unused /\ stripped = Unused
    /\ TokenUnused

otherVars == <<bridgeState, lookup, found, validation, valid, chunkerVars, textVars, tokenVars>>

\* a request arrives; its handler starts
Receive ==
    /\ pc = "idle"
    /\ request' \in Requests
    /\ pc' = "accepted"
    /\ UNCHANGED <<stateFile, fs, loaded, channelId, validFiles, pendingChunks, sinkCalls,
                   response, otherVars>>

\* the answer is written and the handler's locals are dropped: nothing of
\* a request outlives it
Complete ==
    /\ pc = "done"
    /\ request' = Unused
    /\ pc' = "idle"
    /\ loaded' = NotLoaded
    /\ channelId' = None
    /\ validFiles' = <<>>
    /\ pendingChunks' = <<>>
    /\ sinkCalls' = <<>>
    /\ response' = Pending
    /\ UNCHANGED <<stateFile, fs, otherVars>>

\* return (status, body)
Reply(status, body) ==
    /\ response' = Answer(status, body)
    /\ pc' = "done"

\* the deserialized event of the request
OpencodeEventOf(req) == OpencodeEventFromValue(req.payload).event
SendFilesEventOf(req) == SendFilesEventFromValue(req.payload).event

\* the instances map of project_name iterates in one of these orders
IterationOrders(state, project_name) ==
    Orders(IF project_name \in DOMAIN state.projects
           THEN DOMAIN state.projects[project_name].instances
           ELSE {})

\* handle_opencode_event: deserialize, project_name, BridgeState::load
EventAccept ==
    /\ pc = "accepted"
    /\ request.endpoint = "opencode-event"
    /\ IF ~OpencodeEventFromValue(request.payload).ok
       THEN Reply(400, "Invalid event payload") /\ UNCHANGED loaded
       ELSE IF ~ProjectNameOf(OpencodeEventOf(request)).some
       THEN Reply(400, "Invalid event payload") /\ UNCHANGED loaded
       ELSE /\ loaded' = BridgeStateLoad(stateFile)
            /\ pc' = "resolve"
            /\ UNCHANGED response
    /\ UNCHANGED <<stateFile, fs, request, channelId, validFiles, pendingChunks, sinkCalls,
                   otherVars>>

\* handle_opencode_event with the session.idle test made on the text the
\* files are searched in (turn_text, else the visible text)
EventResolveBySearchText ==
    /\ pc = "resolve"
    /\ request.endpoint = "opencode-event"
    /\ LET event == OpencodeEventOf(request)
           project_name == ProjectNameOf(event).v
       IN  \E order \in IterationOrders(loaded, project_name) :
              LET channel_id == FindChannelId(loaded, project_name, AgentTypeOf(event),
                                              InstanceIdOf(event), order)
              IN  IF ~channel_id.some
                  THEN Reply(400, "Invalid event payload") /\ UNCHANGED channelId
                  ELSE /\ channelId' = channel_id
                       /\ IF EventTypeOf(event) = Some(SessionError)
                          THEN pc' = "error" /\ UNCHANGED response
                          ELSE IF /\ EventTypeOf(event) = Some(SessionIdle)
                                  /\ (EventTextOf(event).some \/ TurnTextOf(event).some)
                          THEN pc' = "validate" /\ UNCHANGED response
                          ELSE Reply(200, "OK")
    /\ UNCHANGED <<stateFile, fs, request, loaded, validFiles, pendingChunks, sinkCalls,
                   otherVars>>

\* handle_opencode_event: find_channel_id and the match on event_type
EventResolve ==
    /\ pc = "resolve"
    /\ request.endpoint = "opencode-event"
    /\ LET event == OpencodeEventOf(request)
           project_name == ProjectNameOf(event).v
       IN  \E order \in IterationOrders(loaded, project_name) :
              LET channel_id == FindChannelId(loaded, project_name, AgentTypeOf(event),
                                              InstanceIdOf(event), order)
              IN  IF ~channel_id.some
                  THEN Reply(400, "Invalid event payload") /\ UNCHANGED channelId
                  ELSE /\ channelId' = channel_id
                       /\ IF EventTypeOf(event) = Some(SessionError)
                          THEN pc' = "error" /\ UNCHANGED response
                          ELSE IF /\ EventTypeOf(event) = Some(SessionIdle)
                                  /\ EventTextOf(event).some
                                  /\ Trim(EventTextOf(event).v) # <<>>
                          THEN pc' = "validate" /\ UNCHANGED response
                          ELSE Reply(200, "OK")
    /\ UNCHANGED <<stateFile, fs, request, loaded, validFiles, pendingChunks, sinkCalls,
                   otherVars>>

ErrorPrefix == <<"<warning sign>", " ", "O", "p", "e", "n", "C", "o", "d", "e", " ", "s", "e", "s", "s", "i", "o", "n", " ", "e", "r", "r", "o", "r", ":", " ">>
UnknownError == <<"u", "n", "k", "n", "o", "w", "n", " ", "e", "r", "r", "o", "r">>

\* handle_opencode_event, session.error: the message and its delivery
SendError ==
    /\ pc = "error"
    /\ LET event == OpencodeEventOf(request)
           msg == IF EventTextOf(event).some THEN EventTextOf(event).v ELSE UnknownError
           content == Encode(ErrorPrefix \o msg)
       IN  \E call \in SendMessageCalls(channelId.v, content) :
              /\ sinkCalls' = Append(sinkCalls, call)
              /\ IF call.ok THEN Reply(200, "OK") ELSE Reply(500, "Internal error")
    /\ UNCHANGED <<stateFile, fs, request, loaded, channelId, validFiles, pendingChunks,
                   otherVars>>

\* handle_opencode_event, session.idle: file_search_text
FileSearchText(event) ==
    IF TurnTextOf(event).some THEN TurnTextOf(event).v ELSE Trim(EventTextOf(event).v)

\* handle_opencode_event, session.idle: display_text
DisplayText(event, valid_files) ==
    IF valid_files = <<>> THEN Trim(EventTextOf(event).v)
    ELSE StripFilePaths(Trim(EventTextOf(event).v), valid_files)

\* the validation step with the project root read from a second load of
\* the state document
EventValidateReloading ==
    /\ pc = "validate"
    /\ request.endpoint = "opencode-event"
    /\ LET event == OpencodeEventOf(request)
           project_path == ProjectPath(BridgeStateLoad(stateFile), ProjectNameOf(event).v)
           valid_files == ValidateFilePaths(fs, ExtractFilePaths(FileSearchText(event)),
                                            project_path)
       IN  /\ validFiles' = valid_files
           /\ pendingChunks' = SplitMessageForDiscord(Encode(DisplayText(event, valid_files)))
    /\ pc' = "chunks"
    /\ UNCHANGED <<stateFile, fs, request, loaded, channelId, sinkCalls, response, otherVars>>

\* handle_opencode_event, session.idle: extract, validate, strip, split
EventValidate ==
    /\ pc = "validate"
    /\ request.endpoint = "opencode-event"
    /\ LET event == OpencodeEventOf(request)
           project_path == ProjectPath(loaded, ProjectNameOf(event).v)
           valid_files == ValidateFilePaths(fs, ExtractFilePaths(FileSearchText(event)),
                                            project_path)
       IN  /\ validFiles' = valid_files
           /\ pendingChunks' = SplitMessageForDiscord(Encode(DisplayText(event, valid_files)))
    /\ pc' = "chunks"
    /\ UNCHANGED <<stateFile, fs, request, loaded, channelId, sinkCalls, response, otherVars>>

\* the chunk loop without the blank test: a blank chunk is sent as well
SendBlankChunk ==
    /\ pc = "chunks"
    /\ pendingChunks # <<>>
    /\ Trim(Head(pendingChunks)) = <<>>
    /\ \E call \in SendMessageCalls(channelId.v, Head(pendingChunks)) :
          /\ sinkCalls' = Append(sinkCalls, call)
          /\ IF call.ok
             THEN pendingChunks' = Tail(pendingChunks) /\ UNCHANGED <<pc, response>>
             ELSE Reply(500, "Internal error") /\ UNCHANGED pendingChunks
    /\ UNCHANGED <<stateFile, fs, request, loaded, channelId, validFiles, otherVars>>

\* the chunk loop without the early return: a failed chunk is logged and the
\* loop goes on
SendChunkThenContinue ==
    /\ pc = "chunks"
    /\ pendingChunks # <<>>
    /\ Trim(Head(pendingChunks)) # <<>>
    /\ \E call \in SendMessageCalls(channelId.v, Head(pendingChunks)) :
          sinkCalls' = Append(sinkCalls, call)
    /\ pendingChunks' = Tail(pendingChunks)
    /\ UNCHANGED <<stateFile, fs, request, pc, loaded, channelId, validFiles, response,
                   otherVars>>

\* the chunk loop: a chunk that is blank after trim is skipped
SkipBlankChunk ==
    /\ pc = "chunks"
    /\ pendingChunks # <<>>
    /\ Trim(Head(pendingChunks)) = <<>>
    /\ pendingChunks' = Tail(pendingChunks)
    /\ UNCHANGED <<stateFile, fs, request, pc, loaded, channelId, validFiles, sinkCalls,
                   response, otherVars>>

\* the chunk loop: a chunk is delivered, or the failure is answered at once
SendChunk ==
    /\ pc = "chunks"
    /\ pendingChunks # <<>>
    /\ Trim(Head(pendingChunks)) # <<>>
    /\ \E call \in SendMessageCalls(channelId.v, Head(pendingChunks)) :
          /\ sinkCalls' = Append(sinkCalls, call)
          /\ IF call.ok
             THEN pendingChunks' = Tail(pendingChunks) /\ UNCHANGED <<pc, response>>
             ELSE Reply(500, "Internal error") /\ UNCHANGED pendingChunks
    /\ UNCHANGED <<stateFile, fs, request, loaded, channelId, validFiles, otherVars>>

\* after the loop, no valid file: the handler falls through to 200
EventFinish ==
    /\ pc = "chunks"
    /\ pendingChunks = <<>>
    /\ validFiles = <<>>
    /\ Reply(200, "OK")
    /\ UNCHANGED <<stateFile, fs, request, loaded, channelId, validFiles, pendingChunks,
                   sinkCalls, otherVars>>

\* after the loop, valid files: the attachment upload
EventUpload ==
    /\ pc = "chunks"
    /\ pendingChunks = <<>>
    /\ validFiles # <<>>
    /\ \E delivered \in BOOLEAN :
          LET call == SendFilesCall(fs, channelId.v, <<>>, validFiles, delivered)
          IN  /\ sinkCalls' = Append(sinkCalls, call)
              /\ IF call.ok THEN Reply(200, "OK") ELSE Reply(500, "Internal error")
    /\ UNCHANGED <<stateFile, fs, request, loaded, channelId, validFiles, pendingChunks,
                   otherVars>>

\* handle_send_files with the check of files before the check of
\* project_name
FilesAcceptFilesFirst ==
    /\ pc = "accepted"
    /\ request.endpoint = "send-files"
    /\ IF ~SendFilesEventFromValue(request.payload).ok
       THEN Reply(400, "Invalid payload") /\ UNCHANGED loaded
       ELSE IF SendFilesEventOf(request).files = <<>>
       THEN Reply(400, "No files provided") /\ UNCHANGED loaded
       ELSE IF ~ProjectNameOf(SendFilesEventOf(request)).some
       THEN Reply(400, "Missing projectName") /\ UNCHANGED loaded
       ELSE /\ loaded' = BridgeStateLoad(stateFile)
            /\ pc' = "resolve"
            /\ UNCHANGED response
    /\ UNCHANGED <<stateFile, fs, request, channelId, validFiles, pendingChunks, sinkCalls,
                   otherVars>>

\* handle_send_files: deserialize, project_name, files, BridgeState::load
FilesAccept ==
    /\ pc = "accepted"
    /\ request.endpoint = "send-files"
    /\ IF ~SendFilesEventFromValue(request.payload).ok
       THEN Reply(400, "Invalid payload") /\ UNCHANGED loaded
       ELSE IF ~ProjectNameOf(SendFilesEventOf(request)).some
       THEN Reply(400, "Missing projectName") /\ UNCHANGED loaded
       ELSE IF SendFilesEventOf(request).files = <<>>
       THEN Reply(400, "No files provided") /\ UNCHANGED loaded
       ELSE /\ loaded' = BridgeStateLoad(stateFile)
            /\ pc' = "resolve"
            /\ UNCHANGED response
    /\ UNCHANGED <<stateFile, fs, request, channelId, validFiles, pendingChunks, sinkCalls,
                   otherVars>>

\* handle_send_files: the project, then find_channel_id
FilesResolve ==
    /\ pc = "resolve"
    /\ request.endpoint = "send-files"
    /\ LET event == SendFilesEventOf(request)
           project_name == ProjectNameOf(event).v
       IN  IF project_name \notin DOMAIN loaded.projects
           THEN Reply(404, "Project not found") /\ UNCHANGED channelId
           ELSE \E order \in IterationOrders(loaded, project_name) :
                   LET channel_id == FindChannelId(loaded, project_name, AgentTypeOf(event),
                                                   InstanceIdOf(event), order)
                   IN  IF ~channel_id.some
                       THEN /\ Reply(404, "No channel found for project/agent")
                            /\ UNCHANGED channelId
                       ELSE /\ channelId' = channel_id
                            /\ pc' = "validate"
                            /\ UNCHANGED response
    /\ UNCHANGED <<stateFile, fs, request, loaded, validFiles, pendingChunks, sinkCalls,
                   otherVars>>

\* handle_send_files: validate_file_paths
FilesValidate ==
    /\ pc = "validate"
    /\ request.endpoint = "send-files"
    /\ LET event == SendFilesEventOf(request)
           project_path == ProjectPath(loaded, ProjectNameOf(event).v)
           valid_files == ValidateFilePaths(fs, event.files, project_path)
       IN  IF valid_files = <<>>
           THEN Reply(400, "No valid files") /\ UNCHANGED validFiles
           ELSE /\ validFiles' = valid_files
                /\ pc' = "upload"
                /\ UNCHANGED response
    /\ UNCHANGED <<stateFile, fs, request, loaded, channelId, pendingChunks, sinkCalls,
                   otherVars>>

\* handle_send_files: the attachment upload and its answer
FilesUpload ==
    /\ pc = "upload"
    /\ \E delivered \in BOOLEAN :
          LET call == SendFilesCall(fs, channelId.v, <<>>, validFiles, delivered)
          IN  /\ sinkCalls' = Append(sinkCalls, call)
              /\ IF call.ok THEN Reply(200, "OK") ELSE Reply(500, "Internal error")
    /\ UNCHANGED <<stateFile, fs, request, loaded, channelId, validFiles, pendingChunks,
                   otherVars>>

\* another process rewrites the state document
ExternalWrite ==
    /\ stateFile' \in StateFiles \ {stateFile}
    /\ UNCHANGED <<fs, request, pc, loaded, channelId, validFiles, pendingChunks, sinkCalls,
                   response, otherVars>>

\* another process points the project's symbolic link elsewhere
ExternalRelink ==
    /\ fs' \in FileSystems \ {fs}
    /\ UNCHANGED <<stateFile, request, pc, loaded, channelId, validFiles, pendingChunks,
                   sinkCalls, response, otherVars>>

NextDispatch ==
    \/ Receive
    \/ Complete
    \/ EventAccept
    \/ EventResolve
    \/ SendError
    \/ EventValidate
    \/ SkipBlankChunk
    \/ SendChunk
    \/ EventFinish
    \/ EventUpload
    \/ FilesAccept
    \/ FilesResolve
    \/ FilesValidate
    \/ FilesUpload
    \/ ExternalWrite
    \/ ExternalRelink

SpecDispatch == InitDispatch /\ [][NextDispatch]_vars

----------------------------------------------------------------------------
(* C11: the order of the extracted paths                                   *)

MaxOrderTokens == 8

\* three paths and the space that separates them
OrderTokens ==
    {<<"/", "a", ".", "p", "n", "g">>,
     <<"/", "b", ".", "p", "n", "g">>,
     <<"/", "c", ".", "p", "n", "g">>,
     <<" ">>}

\* texts with several paths, each possibly more than once
OrderTexts == {Concat(ts) : ts \in SeqsUpTo(OrderTokens, MaxOrderTokens)}

InitOrder ==
    /\ sourceText \in OrderTexts
    /\ extracted = Pending
    /\ stripped = Pending
    /\ bridgeState = Unused /\ lookup = Unused /\ found = Unused
    /\ fs = Unused /\ validation = Unused /\ valid = Unused
    /\ message = Unused /\ remaining = Unused /\ chunks = Unused /\ splitPc = Unused
    /\ DispatchUnused
    /\ TokenUnused

NextOrder == Extract

SpecOrder == InitOrder /\ [][NextOrder]_vars

\* the position at which p first occurs in text as a bounded path, 0 if it
\* never does
FirstOccurrence(text, p) ==
    LET at == {i \in 1..(Len(text) - Len(p) + 1) :
                  LiteralAt(text, i, p) /\ Bounded(text, i, i + Len(p) - 1)}
    IN  IF at = {} THEN 0 ELSE CHOOSE i \in at : \A k \in at : i <= k

\* extract_file_paths returns no path twice, and only substrings of the text
C11_UniqueSubstrings ==
    extracted # Pending =>
        /\ \A i, j \in DOMAIN extracted.value :
              i # j => extracted.value[i] # extracted.value[j]
        /\ \A i \in DOMAIN extracted.value : IsSubstring(extracted.value[i], sourceText)

\* C11: extract_file_paths returns no path twice, every returned path is a
\* substring of the text, and the paths are listed in the order in which
\* they first occur in the text (a path listed before another first occurs
\* before it).
C11_FirstOccurrenceOrder ==
    extracted # Pending =>
        /\ \A i, j \in DOMAIN extracted.value :
              i # j => extracted.value[i] # extracted.value[j]
        /\ \A i \in DOMAIN extracted.value : IsSubstring(extracted.value[i], sourceText)
        /\ \A i, j \in DOMAIN extracted.value :
              i < j => FirstOccurrence(sourceText, extracted.value[i])
                          < FirstOccurrence(sourceText, extracted.value[j])

----------------------------------------------------------------------------
(* C4, C5: the calls of one request on the chat sink                       *)

\* a sink call without its outcome: the method and its arguments
CallShape(call) ==
    [op |-> call.op, channel_id |-> call.channel_id, content |-> call.content,
     file_paths |-> call.file_paths]

CallShapes(calls) == [i \in DOMAIN calls |-> CallShape(calls[i])]

IsPrefix(s, t) == Len(s) <= Len(t) /\ s = SubSeq(t, 1, Len(s))

\* the elements of chunks that are not blank after trim, in order
RECURSIVE NonBlankChunks(_)
NonBlankChunks(list) ==
    IF list = <<>> THEN <<>>
    ELSE (IF Trim(Head(list)) # <<>> THEN <<Head(list)>> ELSE <<>>)
         \o NonBlankChunks(Tail(list))

\* a session.idle request whose channel is resolved and whose visible text
\* is not blank has reached (or passed) the delivery of its display text
InIdleDelivery ==
    /\ pc \in {"chunks", "done"}
    /\ request.endpoint = "opencode-event"
    /\ OpencodeEventFromValue(request.payload).ok
    /\ channelId.some
    /\ EventTypeOf(OpencodeEventOf(request)) = Some(SessionIdle)
    /\ EventTextOf(OpencodeEventOf(request)).some

\* what the claim prescribes for the request: one send_message per
\* non-blank chunk of the display text, then one send_files if a file is valid
PrescribedCalls ==
    LET display == DisplayText(OpencodeEventOf(request), validFiles)
        texts == NonBlankChunks(SplitMessageForDiscord(Encode(display)))
    IN  [i \in DOMAIN texts |->
            [op |-> "send_message", channel_id |-> channelId.v, content |-> texts[i],
             file_paths |-> <<>>]]
        \o (IF validFiles # <<>>
            THEN <<[op |-> "send_files", channel_id |-> channelId.v, content |-> <<>>,
                    file_paths |-> validFiles]>>
            ELSE <<>>)

\* C4: within one session.idle request the sink calls made so far are the
\* first of the prescribed sequence (a send_message per non-blank chunk of
\* the display text in chunk order, then one send_files with empty content
\* and the validated files iff there is a valid file), so the upload never
\* precedes a text chunk; and the request answers 200 only when all of them
\* have been made and have succeeded.
C4_IdleDeliveryOrder ==
    InIdleDelivery =>
        /\ IsPrefix(CallShapes(sinkCalls), PrescribedCalls)
        /\ (response = Answer(200, "OK") =>
               /\ CallShapes(sinkCalls) = PrescribedCalls
               /\ \A i \in DOMAIN sinkCalls : sinkCalls[i].ok)

\* a request answered 200 after two text chunks, a skipped blank chunk and
\* the upload
C4_Witness ==
    /\ InIdleDelivery
    /\ pc = "done"
    /\ response = Answer(200, "OK")
    /\ Len(sinkCalls) = 3
    /\ sinkCalls[1].op = "send_message" /\ sinkCalls[2].op = "send_message"
    /\ sinkCalls[3].op = "send_files"
    /\ Len(SplitMessageForDiscord(Encode(DisplayText(OpencodeEventOf(request), validFiles)))) = 3

\* C5: in any request, every sink call before the last one succeeded and
\* inside a send_message every post before the last one succeeded (nothing
\* follows a failure); a failed call is answered 500 'Internal error' at
\* once; and a request answers 500 only if its last sink call failed.
C5_FailureAborts ==
    /\ \A i \in 1..(Len(sinkCalls) - 1) : sinkCalls[i].ok
    /\ \A i \in DOMAIN sinkCalls :
          /\ \A j \in 1..(Len(sinkCalls[i].posts) - 1) : sinkCalls[i].posts[j].ok
          /\ sinkCalls[i].op = "send_message" =>
                (sinkCalls[i].ok <=> \A j \in DOMAIN sinkCalls[i].posts : sinkCalls[i].posts[j].ok)
    /\ (sinkCalls # <<>> /\ ~sinkCalls[Len(sinkCalls)].ok =>
           pc = "done" /\ response = Answer(500, "Internal error"))
    /\ (~response.pending /\ response.status = 500 =>
           /\ response = Answer(500, "Internal error")
           /\ sinkCalls # <<>> /\ ~sinkCalls[Len(sinkCalls)].ok)

\* a text chunk failed after another was delivered, with the upload of a
\* valid file still to come: the request is answered 500 without it
C5_Witness ==
    /\ pc = "done"
    /\ response = Answer(500, "Internal error")
    /\ Len(sinkCalls) = 2
    /\ sinkCalls[1].ok /\ ~sinkCalls[2].ok
    /\ sinkCalls[2].op = "send_message"
    /\ validFiles # <<>>

----------------------------------------------------------------------------
(* C6: the answers of send-files                                           *)

\* no iteration order of the instances map resolves a channel
Unresolved(state, project_name, agent_type, instance_id) ==
    \A order \in IterationOrders(state, project_name) :
        ~FindChannelId(state, project_name, agent_type, instance_id, order).some

FilesRequestDone == pc = "done" /\ request.endpoint = "send-files"

\* C6: a send-files request is answered by the first failing check, in the
\* order payload, projectName, files, project, channel, validation, without
\* a sink call; when every check passes the sink is called exactly once,
\* send_files with empty content and the validated files (candidates of the
\* payload, in order), and the answer is 200 'OK' if the call succeeded and
\* 500 if it failed.
C6_SendFilesAnswers ==
    FilesRequestDone =>
        IF ~SendFilesEventFromValue(request.payload).ok
        THEN response = Answer(400, "Invalid payload") /\ sinkCalls = <<>>
        ELSE LET event == SendFilesEventOf(request)
             IN  IF ~ProjectNameOf(event).some
                 THEN response = Answer(400, "Missing projectName") /\ sinkCalls = <<>>
                 ELSE IF event.files = <<>>
                 THEN response = Answer(400, "No files provided") /\ sinkCalls = <<>>
                 ELSE IF loaded = NotLoaded THEN FALSE
                 ELSE IF ProjectNameOf(event).v \notin DOMAIN loaded.projects
                 THEN response = Answer(404, "Project not found") /\ sinkCalls = <<>>
                 ELSE IF Unresolved(loaded, ProjectNameOf(event).v, AgentTypeOf(event),
                                    InstanceIdOf(event))
                 THEN /\ response = Answer(404, "No channel found for project/agent")
                      /\ sinkCalls = <<>>
                 ELSE IF validFiles = <<>>
                 THEN response = Answer(400, "No valid files") /\ sinkCalls = <<>>
                 ELSE /\ IsSubsequence(validFiles, event.files)
                      /\ Len(sinkCalls) = 1
                      /\ CallShape(sinkCalls[1]) =
                            [op |-> "send_files", channel_id |-> channelId.v,
                             content |-> <<>>, file_paths |-> validFiles]
                      /\ response = IF sinkCalls[1].ok THEN Answer(200, "OK")
                                    ELSE Answer(500, "Internal error")

\* two checks would fail, the earlier one answers: no files, and a project
\* the state document on disk does not hold
C6_Witness ==
    /\ FilesRequestDone
    /\ response = Answer(400, "No files provided")
    /\ ProjectNameOf(SendFilesEventOf(request)).v \notin DOMAIN BridgeStateLoad(stateFile).projects

----------------------------------------------------------------------------
(* C7: the opencode-event requests that make no sink call                  *)

EventRequestDone == pc = "done" /\ request.endpoint = "opencode-event"

\* the payload deserializes and its projectName is not blank
Named == 
    /\ OpencodeEventFromValue(request.payload).ok
    /\ ProjectNameOf(OpencodeEventOf(request)).some

\* the handler loaded the state and no channel resolves in it
ChannelMiss ==
    /\ Named
    /\ loaded # NotLoaded
    /\ Unresolved(loaded, ProjectNameOf(OpencodeEventOf(request)).v,
                  AgentTypeOf(OpencodeEventOf(request)), InstanceIdOf(OpencodeEventOf(request)))

ChannelHit == Named /\ loaded # NotLoaded /\ ~ChannelMiss

\* blank or missing projectName, or unresolved channel
RoutingFails == (OpencodeEventFromValue(request.payload).ok /\ ~Named) \/ ChannelMiss

\* the type is neither session.error nor session.idle
OtherType ==
    /\ ChannelHit
    /\ EventTypeOf(OpencodeEventOf(request)) \notin {Some(SessionError), Some(SessionIdle)}

\* session.idle with a blank visible text
IdleBlank ==
    /\ ChannelHit
    /\ EventTypeOf(OpencodeEventOf(request)) = Some(SessionIdle)
    /\ ~EventTextOf(OpencodeEventOf(request)).some

\* the answers of the three cases
SilentAnswers ==
    /\ RoutingFails => response = Answer(400, "Invalid event payload")
    /\ OtherType => response = Answer(200, "OK")
    /\ IdleBlank => response = Answer(200, "OK")

\* C7 as stated: an opencode-event request makes no sink call exactly when
\* projectName is blank or missing or the channel is unresolved (400
\* 'Invalid event payload'), or the type is neither session.error nor
\* session.idle (200), or the type is session.idle and the visible text is
\* blank (200).
C7_SilentExactlyInThreeCases ==
    EventRequestDone =>
        /\ sinkCalls = <<>> <=> (RoutingFails \/ OtherType \/ IdleBlank)
        /\ SilentAnswers

\* C7 with the case it leaves out: a payload that does not deserialize is
\* answered 400 'Invalid event payload' without a sink call as well; no sink
\* call is made exactly in these four cases.
C7_SilentExactlyInFourCases ==
    EventRequestDone =>
        /\ sinkCalls = <<>> <=>
              \/ ~OpencodeEventFromValue(request.payload).ok
              \/ RoutingFails \/ OtherType \/ IdleBlank
        /\ ~OpencodeEventFromValue(request.payload).ok =>
              response = Answer(400, "Invalid event payload")
        /\ SilentAnswers

\* session.idle with a blank visible text and a turnText that names a file
\* valid in the loaded state: answered 200 without a sink call
C7_Witness ==
    /\ EventRequestDone
    /\ IdleBlank
    /\ TurnTextOf(OpencodeEventOf(request)).some
    /\ ValidateFilePaths(fs, ExtractFilePaths(TurnTextOf(OpencodeEventOf(request)).v),
                         ProjectPath(loaded, ProjectNameOf(OpencodeEventOf(request)).v)) # <<>>
    /\ sinkCalls = <<>>
    /\ response = Answer(200, "OK")

----------------------------------------------------------------------------
(* C12: the empty message                                                  *)

\* C12: split_message_for_discord("") is the empty sequence, and
\* send_message, which posts one message per chunk, posts nothing for an
\* empty content.
C12_EmptyMessageNoChunks ==
    splitPc = "done" /\ message = <<>> =>
        /\ chunks = <<>>
        /\ \A call \in SendMessageCalls(<<"c">>, message) : call.posts = <<>>

\* what the code does with the empty message: one chunk, the empty string
C12_EmptyMessageOneChunk ==
    splitPc = "done" /\ message = <<>> => chunks = << <<>> >>

----------------------------------------------------------------------------
(* C13: the determinism of the resolver                                    *)

\* C13: for a fixed state document and fixed arguments, find_channel_id
\* returns the same result whatever the iteration order of the instances
\* map: the result of the call made is the result under every order.
C13_OrderIndependent ==
    found # Pending =>
        \A order \in IterationOrders(bridgeState, lookup.project_name) :
            FindChannelId(bridgeState, lookup.project_name, lookup.agent_type,
                          lookup.instance_id, order) = found.value

\* the records of the project whose effective identifiers differ pairwise
DistinctIds ==
    \A k1, k2 \in DOMAIN TheProject.instances :
        k1 # k2 => EffectiveId(k1) # EffectiveId(k2)

\* what does hold: the result is independent of the order when no two
\* records of the project share an effective identifier
C13_OrderIndependentIfDistinctIds ==
    found # Pending /\ lookup.project_name \in DOMAIN bridgeState.projects /\ DistinctIds =>
        \A order \in IterationOrders(bridgeState, lookup.project_name) :
            FindChannelId(bridgeState, lookup.project_name, lookup.agent_type,
                          lookup.instance_id, order) = found.value

----------------------------------------------------------------------------
(* C14: the state document, its writer and the requests                    *)

\* the project name and the candidate files of the request in hand
RequestProject ==
    IF request.endpoint = "opencode-event"
    THEN ProjectNameOf(OpencodeEventOf(request)).v
    ELSE ProjectNameOf(SendFilesEventOf(request)).v

RequestAgent ==
    IF request.endpoint = "opencode-event"
    THEN AgentTypeOf(OpencodeEventOf(request))
    ELSE AgentTypeOf(SendFilesEventOf(request))

RequestInstance ==
    IF request.endpoint = "opencode-event"
    THEN InstanceIdOf(OpencodeEventOf(request))
    ELSE InstanceIdOf(SendFilesEventOf(request))

RequestCandidates ==
    IF request.endpoint = "opencode-event"
    THEN ExtractFilePaths(FileSearchText(OpencodeEventOf(request)))
    ELSE SendFilesEventOf(request).files

\* one step of a request or of the writer keeps to the single snapshot
SnapshotStep ==
    \* the snapshot is taken once, from the document as it is on disk at that
    \* moment (the empty state if it cannot be read or parsed), and dropped
    \* with the request
    /\ loaded' # loaded =>
          \/ /\ pc = "accepted" /\ loaded = NotLoaded
             /\ loaded' = BridgeStateLoad(stateFile)
             /\ (stateFile.kind # "document" => loaded' = EmptyState)
          \/ pc = "done" /\ pc' = "idle" /\ loaded' = NotLoaded
    \* a request starts without a snapshot and is past the load with one
    /\ pc' \in {"idle", "accepted"} => loaded' = NotLoaded
    /\ pc' \in {"resolve", "validate", "error", "chunks", "upload"} => loaded' # NotLoaded
    \* the channel is resolved in the snapshot
    /\ channelId' # channelId /\ channelId'.some =>
          /\ loaded # NotLoaded
          /\ \E order \in IterationOrders(loaded, RequestProject) :
                channelId' = FindChannelId(loaded, RequestProject, RequestAgent,
                                           RequestInstance, order)
    \* the project root is the snapshot's
    /\ validFiles' # validFiles /\ validFiles' # <<>> =>
          /\ loaded # NotLoaded
          /\ validFiles' = ValidateFilePaths(fs, RequestCandidates,
                                             ProjectPath(loaded, RequestProject))
    \* a step that changes the document is no step of a request
    /\ stateFile' # stateFile =>
          UNCHANGED <<request, pc, loaded, channelId, validFiles, pendingChunks, sinkCalls,
                      response>>

\* C14: under any interleaving of requests and writes of the state
\* document, a request loads the document once, as it is on disk when the
\* handler reads it (the empty state if unreadable or unparsable), resolves
\* its channel and its project root in that snapshot, keeps nothing of it
\* for the next request, and never changes the document.
C14_SingleSnapshot == [][SnapshotStep]_vars

\* a request that validated files under the root of its snapshot while the
\* document on disk has since been rewritten
C14_Witness ==
    /\ pc = "chunks"
    /\ channelId.some
    /\ validFiles # <<>>
    /\ loaded # BridgeStateLoad(stateFile)
    /\ ProjectPath(BridgeStateLoad(stateFile), RequestProject) # ProjectPath(loaded, RequestProject)

----------------------------------------------------------------------------
(* config.rs: normalize_discord_token                                      *)

DoubleQuote == "\""
SingleQuote == "'"

\* str::to_ascii_lowercase
ToAsciiLowercase(str) == [i \in DOMAIN str |-> Lower(str[i])]

\* str::starts_with(prefix)
StartsWithStr(str, prefix) ==
    Len(str) >= Len(prefix) /\ SubSeq(str, 1, Len(prefix)) = prefix

\* token.starts_with(q) && token.ends_with(q)
Quoted(str, q) == str # <<>> /\ str[1] = q /\ str[Len(str)] = q

\* str.split_once(char::is_whitespace).map_or_else(String::new, |(_, rest)| rest.trim())
RECURSIVE AfterFirstWhitespace(_)
AfterFirstWhitespace(str) ==
    IF str = <<>> THEN <<>>
    ELSE IF IsWhitespace(Head(str)) THEN Trim(Tail(str))
    ELSE AfterFirstWhitespace(Tail(str))

\* token.retain(|c| !c.is_whitespace())
RECURSIVE RetainNonWhitespace(_)
RetainNonWhitespace(str) ==
    IF str = <<>> THEN <<>>
    ELSE (IF IsWhitespace(Head(str)) THEN <<>> ELSE <<Head(str)>>)
         \o RetainNonWhitespace(Tail(str))

Panicked == [pending |-> FALSE, panicked |-> TRUE, value |-> <<>>]
Normalized(str) == [pending |-> FALSE, panicked |-> FALSE, value |-> str]

BotPrefix == <<"b", "o", "t", " ">>
BearerPrefix == <<"b", "e", "a", "r", "e", "r", " ">>

\* the prefix test and the rest of normalize_discord_token, from the token
\* without its quotes
StripPrefix(unquoted) ==
    LET lowered == ToAsciiLowercase(unquoted)
        rest == IF StartsWithStr(lowered, BotPrefix) \/ StartsWithStr(lowered, BearerPrefix)
                THEN AfterFirstWhitespace(unquoted)
                ELSE unquoted
    IN  Normalized(RetainNonWhitespace(rest))

\* normalize_discord_token; the slice token[1..token.len() - 1] panics when
\* the token is one character long (1 > 0)
NormalizeDiscordToken(input) ==
    LET trimmed == Trim(input)
    IN  IF trimmed = <<>> THEN Normalized(<<>>)
        ELSE IF Quoted(trimmed, DoubleQuote) \/ Quoted(trimmed, SingleQuote)
        THEN IF 1 > Len(trimmed) - 1 THEN Panicked
             ELSE StripPrefix(Trim(SubSeq(trimmed, 2, Len(trimmed) - 1)))
        ELSE StripPrefix(trimmed)

MaxTokenPieces == 4

\* pieces of an input: the prefixes, the quotes, a space, the secret
TokenPieces ==
    {<<"B", "o", "t", " ">>,
     <<"b", "e", "a", "r", "e", "r", " ">>,
     <<DoubleQuote>>,
     <<SingleQuote>>,
     <<" ">>,
     <<"a", ".", "b">>}

TokenInputs == {Concat(ps) : ps \in SeqsUpTo(TokenPieces, MaxTokenPieces)}

InitToken ==
    /\ tokenInput \in TokenInputs
    /\ tokenOutput = Pending
    /\ bridgeState = Unused /\ lookup = Unused /\ found = Unused
    /\ fs = Unused /\ validation = Unused /\ valid = Unused
    /\ message = Unused /\ remaining = Unused /\ chunks = Unused /\ splitPc = Unused
    /\ sourceText = Unused /\ extracted = Unused /\ stripped = Unused
    /\ DispatchUnused

\* one call of normalize_discord_token
Normalize ==
    /\ tokenOutput = Pending
    /\ tokenOutput' = NormalizeDiscordToken(tokenInput)
    /\ UNCHANGED <<tokenInput, resolverVars, validatorVars, chunkerVars, textVars,
                   dispatchVars>>

NextToken == Normalize

SpecToken == InitToken /\ [][NextToken]_vars

----------------------------------------------------------------------------
(* C15                                                                     *)

\* C15: for every input, normalize_discord_token returns a string that has
\* no leading Bot/Bearer prefix (whatever the case), is not surrounded by a
\* pair of matching single or double quotes, and holds no whitespace.
C15_ReturnsNormalized ==
    tokenOutput # Pending =>
        /\ ~tokenOutput.panicked
        /\ \A i \in DOMAIN tokenOutput.value : ~IsWhitespace(tokenOutput.value[i])
        /\ ~StartsWithStr(ToAsciiLowercase(tokenOutput.value), BotPrefix)
        /\ ~StartsWithStr(ToAsciiLowercase(tokenOutput.value), BearerPrefix)
        /\ ~(Len(tokenOutput.value) >= 2 /\ Quoted(tokenOutput.value, DoubleQuote))
        /\ ~(Len(tokenOutput.value) >= 2 /\ Quoted(tokenOutput.value, SingleQuote))

\* normalize_discord_token returns, for every input
C15_Returns == tokenOutput # Pending => ~tokenOutput.panicked

\* what does hold of every string it returns: no whitespace
C15_NoWhitespace ==
    tokenOutput # Pending /\ ~tokenOutput.panicked =>
        \A i \in DOMAIN tokenOutput.value : ~IsWhitespace(tokenOutput.value[i])

----------------------------------------------------------------------------
(* C16: the rule of the cut                                                *)

\* the byte offsets of c in the first hard bytes of rem
OffsetsOf(rem, hard, c) == {p \in 0..(hard - 1) : rem[p + 1] = c}

Last(offsets) == CHOOSE p \in offsets : \A q \in offsets : q <= p

\* the cut the rule chooses in rem: after the last newline of the prefix
\* [0, hard) if at least L/2 characters precede it, otherwise after the last
\* space of the prefix, otherwise hard
RuleCut(rem) ==
    LET hard == NthCharOffset(rem, DISCORD_MAX_MESSAGE_LENGTH)
        newlines == OffsetsOf(rem, hard, "\n")
        spaces == OffsetsOf(rem, hard, " ")
    IN  IF /\ newlines # {}
           /\ CharCount(SubSeq(rem, 1, Last(newlines))) >= DISCORD_MAX_MESSAGE_LENGTH \div 2
        THEN Last(newlines) + 1
        ELSE IF spaces # {} THEN Last(spaces) + 1
        ELSE hard

\* an iteration of the loop that pushes a chunk
Iteration == splitPc = "loop" /\ remaining # <<>> /\ chunks' # chunks

\* C16: at every iteration of the chunker the chunk is the remaining text up
\* to the cut of the rule, also when at most L characters remain.
C16_RuleAtEveryIteration ==
    [][Iteration => chunks' = Append(chunks, SliceTo(remaining, RuleCut(remaining)))]_vars

\* what does hold: the rule decides the cut while more than L characters
\* remain, and a remaining text of at most L characters is one chunk
C16_RuleWhileMoreRemains ==
    [][Iteration =>
          chunks' = Append(chunks,
                           IF CharCount(remaining) > DISCORD_MAX_MESSAGE_LENGTH
                           THEN SliceTo(remaining, RuleCut(remaining))
                           ELSE remaining)]_vars

----------------------------------------------------------------------------
(* C17: the files read for upload, under a filesystem that changes         *)

\* a step in which the sink reads files for upload
ReadStep ==
    /\ Len(sinkCalls') = Len(sinkCalls) + 1
    /\ sinkCalls'[Len(sinkCalls')].op = "send_files"

\* every file the call has read resolved, when read, to the canonical root
\* of the request's project or to a location inside it
ReadsConfined(fsys, call) ==
    LET project_path == ProjectPath(loaded, RequestProject)
    IN  /\ project_path.some
        /\ Canonicalize(fsys, PathComponents(project_path.v)).ok
        /\ \A i \in 1..Len(call.read) :
              call.read[i].ok =>
                 StartsWith(call.read[i].path,
                            Canonicalize(fsys, PathComponents(project_path.v)).path)

\* C17: under any interleaving of a request with a process that changes the
\* filesystem, every file whose bytes send_files reads resolves, at the
\* moment it is read, to the project's canonical root or inside it.
C17_ReadsConfinedWhenRead ==
    [][ReadStep => ReadsConfined(fs, sinkCalls'[Len(sinkCalls')])]_vars

\* what does hold: the files read are confined when the filesystem at the
\* read still validates the same candidates
C17_ReadsConfinedIfStillValid ==
    [][ReadStep /\ validFiles = ValidateFilePaths(fs, RequestCandidates,
                                                  ProjectPath(loaded, RequestProject))
          => ReadsConfined(fs, sinkCalls'[Len(sinkCalls')])]_vars

====
